---- MODULE Spec2Model ----
(***************************************************************************)
(* A model of tag-grid-scanner: the tag catalog of src/tag_detector.py,    *)
(* the acquisition worker of src/taggridscanner/pipeline/retrieve_image.py *)
(* and the producer/consumer loops of src/taggridscanner/cmd/scan.py.      *)
(*                                                                         *)
(* taggridscanner.aux.threading (ThreadSafeContainer, WorkerThread) is not *)
(* among the sources; the mailbox and the rate-limited worker loop are     *)
(* modelled from sections 4.5 and 4.6 of the specification.                *)
(***************************************************************************)
EXTENDS Integers, Sequences, FiniteSets, TLC

VARIABLES
    \* ---- TagDetector (src/tag_detector.py)
    tag_size,       \* self.__tag_size, a numpy shape <<rows, cols>>
    tags,           \* self.__tags, the ordered list of bit strings
    tag_dict,       \* self.__tag_dict, encoding -> index
    tiles,          \* the argument of the last detect_tags call (a grid, flattened)
    detected_tags,  \* the result of the last detect_tags call
    \* ---- the encoding functions applied to drawn inputs
    np_a, np_b,     \* two tiles
    int_a, int_b,   \* np_tag_to_int of each
    string_tag,     \* a bit string
    int_of_string,  \* string_tag_to_int(string_tag)
    int_of_np,      \* np_tag_to_int(string_tag_to_np_tag(string_tag))
    \* ---- scan (src/taggridscanner/cmd/scan.py): the mailboxes
    result,         \* producer.result, the WorkerThread's mailbox
    key_box,        \* roi_worker.key
    compute_visualization,  \* roi_worker.compute_visualization
    \* ---- the producer thread: WorkerThread(roi_worker)
    p_pc,           \* where the producer thread is
    cycle,          \* the number of the work() call in progress, from 1
    w_idx,          \* ROIWorker.idx, the active vertex
    w_key,          \* work()'s local key (NoKey: the mailbox was empty)
    w_key_sent,     \* how many key.set calls had happened when w_key was read
    w_last_tag_data,\* ROIWorker.last_tag_data
    w_tag_data,     \* work()'s local tag_data
    w_result,       \* work()'s return value
    \* ---- the consumer loop of scan()
    c_pc,           \* where the main thread is
    c_got,          \* whether this iteration's retrieve_nowait returned a value
    c_value,        \* the value it returned
    c_published,    \* how many result.set calls had happened at that read
    c_last_tag_data,\* scan()'s local last_tag_data
    c_has_window,   \* scan()'s local has_window
    c_rel_corners,  \* whether scan()'s local rel_corners is not None
    c_notified,     \* whether this iteration called notify
    \* ---- what an observer has seen
    published,      \* number of result.set calls
    skipped,        \* cycles whose result was overwritten before any read
    keys_sent,      \* number of key.set calls
    last_notified,  \* the grid of the last notify call (NoGrid: none yet)
    prev_notified,  \* the grid of the notify call before it
    notify_count,   \* number of notify calls, counted up to 2
    \* ---- RetrieveImage (src/taggridscanner/pipeline/retrieve_image.py)
    camera_up,      \* whether the device can be opened and delivers frames
    capture_open,   \* whether self.capture has been opened
    rlock,          \* the thread holding self.__rlock, "none" when free
    a_pc,           \* where the acquiring thread is (constructor, then worker)
    a_caller,       \* who runs the acquisition code: "ctor" or "worker"
    since_ts,       \* time since self.__last_reconnection_ts, up to TimeCap
    sleep_left,     \* what is left of reconnect's time.sleep
    last_image,     \* self.__last_image
    frame_box,      \* self.__worker.result
    stop_flag,      \* the worker thread has been told to stop
    r_pc,           \* where a thread calling read() is
    r_frame,        \* what its last read() returned
    r_latest,       \* the frame published last when that read() returned
    r_returns,      \* number of read() calls that returned, counted up to 2
    d_pc,           \* where a thread calling __del is
    ever_read_ok,   \* some capture.read() has succeeded
    last_published, \* the frame the worker published last
    since_open,     \* time since the last capture.open call, up to TimeCap
    open_gap,       \* time between the last two capture.open calls
    open_attempts,  \* number of capture.open calls, counted up to 2
    since_failure,  \* since the last failed capture.read(): "nothing", a frame "read", or it "published"
    cycle_image,    \* self.__last_image when the current call of __read began
    cycle_fails,    \* number of failed capture.read() calls in that call of __read
    \* ---- a rate-limited WorkerThread seen against the clock
    rl_pc,          \* where the thread is: in the cycle or in the limiter's sleep
    rl_elapsed,     \* time since the start of the iteration, up to RateCap
    rl_sleep_left,  \* what is left of the limiter's sleep
    rl_started,     \* number of cycles started
    rl_finished,    \* number of cycles finished
    rl_last_compute,\* the compute time of the cycle finished last
    rl_last_slept,  \* the sleep the limiter asked for after it
    rl_last_period, \* start-to-start time of the iteration before this one
    rl_overrun_seen,\* some cycle took longer than the period
    \* ---- TagDetector.extract_tiles on an image (src/tag_detector.py)
    grid_size,      \* self.grid_size, <<rows, cols>>
    rel_gaps,       \* self.rel_gaps, in units of 1/GapDen, <<vertical, horizontal>>
    img_shape,      \* img.shape, <<height, width>>
    windows,        \* the windows tile_window returned in the last extract_tiles call
    x_pc,           \* how the last extract_tiles call ended
    \* ---- RetrieveImage.__read's smoothing on frames with pixels
    sm_smooth,      \* self.smooth, in units of 1/SmoothDen
    sm_last,        \* self.__last_image
    sm_prev,        \* self.__last_image before the last successful read
    sm_image,       \* the frame that read delivered
    sm_reads,       \* number of successful reads, counted up to MaxReads
    \* ---- the start of scan() (src/taggridscanner/cmd/scan.py, lines 264-267)
    st_pc,          \* how far the start has come
    st_threads,     \* the worker threads started so far
    st_error,       \* the exception that ended the start, "none" without one
    \* ---- the locks of RetrieveImage and of the mailboxes, and who takes them
    lk_pc,          \* per thread, the number of its next locking step
    lk_depth,       \* per thread and lock, how often the thread holds the lock
    lk_parked,      \* per thread, whether it waits on a mailbox's condition
    lk_has,         \* per mailbox, whether a value has been set
    lk_stop,        \* the acquisition worker has been told to stop
    \* ---- the frames of RetrieveImage as numpy arrays with an identity
    al_heap,        \* the arrays allocated so far, by identity
    al_last,        \* the array self.__last_image refers to
    al_box,         \* the array the worker's mailbox refers to, 0 for none
    al_held,        \* the array the last read() returned, 0 for none
    al_seen,        \* the contents of that array when read() returned
    al_smooth,      \* self.smooth, in SmoothDen-ths
    al_reads,       \* number of acquisition cycles so far
    \* ---- the ROI editor state of ROIWorker and the key mailbox
    roi_shape,      \* (self.h, self.w), in quarter pixels
    roi_idx,        \* self.idx, the active vertex
    roi_vertices,   \* self.vertices, four points <<x, y>> in quarter pixels
    roi_key_box,    \* self.key, holding key codes
    roi_sent,       \* number of key.set calls so far
    roi_cycles,     \* number of work() calls so far
    roi_before,     \* vertices and idx when the last work() call began
    roi_fresh,      \* a key was set between the last two work() calls' starts
    roi_applied     \* the key the last work() call got, NoKeyPressed for Empty

tagVars == <<tag_size, tags, tag_dict, tiles, detected_tags>>
encVars == <<np_a, np_b, int_a, int_b, string_tag, int_of_string, int_of_np>>
boxVars == <<result, key_box, compute_visualization>>
prodVars == <<p_pc, cycle, w_idx, w_key, w_key_sent, w_last_tag_data, w_tag_data, w_result>>
consVars == <<c_pc, c_got, c_value, c_published, c_last_tag_data, c_has_window,
              c_rel_corners, c_notified>>
seenVars == <<published, skipped, keys_sent, last_notified, prev_notified, notify_count>>
scanVars == <<boxVars, prodVars, consVars, seenVars>>
cycleVars == <<since_failure, cycle_image, cycle_fails>>
camVars == <<camera_up, capture_open, rlock, a_pc, a_caller, since_ts, sleep_left,
             last_image, frame_box, stop_flag, r_pc, r_frame, r_latest, r_returns, d_pc,
             ever_read_ok, last_published, since_open, open_gap, open_attempts,
             cycleVars>>
rateVars == <<rl_pc, rl_elapsed, rl_sleep_left, rl_started, rl_finished, rl_last_compute,
              rl_last_slept, rl_last_period, rl_overrun_seen>>
winVars == <<grid_size, rel_gaps, img_shape, windows, x_pc>>
smoothVars == <<sm_smooth, sm_last, sm_prev, sm_image, sm_reads>>
startVars == <<st_pc, st_threads, st_error>>
lockVars == <<lk_pc, lk_depth, lk_parked, lk_has, lk_stop>>
aliasVars == <<al_heap, al_last, al_box, al_held, al_seen, al_smooth, al_reads>>
roiVars == <<roi_shape, roi_idx, roi_vertices, roi_key_box, roi_sent, roi_cycles,
             roi_before, roi_fresh, roi_applied>>
moreVars == <<aliasVars, roiVars>>
otherVars == <<winVars, smoothVars, startVars, lockVars, moreVars>>
\* what the actions of one part leave alone among these
notWinVars == <<smoothVars, startVars, lockVars, moreVars>>
notSmoothVars == <<winVars, startVars, lockVars, moreVars>>
notStartVars == <<winVars, smoothVars, lockVars, moreVars>>
notLockVars == <<winVars, smoothVars, startVars, moreVars>>
notAliasVars == <<winVars, smoothVars, startVars, lockVars, roiVars>>
notRoiVars == <<winVars, smoothVars, startVars, lockVars, aliasVars>>
vars == <<tagVars, encVars, scanVars, camVars, rateVars, otherVars>>

(***************************************************************************)
(* Bounds                                                                  *)
(***************************************************************************)
MaxTags == 2        \* longest tag list drawn
MaxCycles == 3      \* work() calls of the producer in one behaviour
MaxKeys == 2        \* key.set calls of the consumer in one behaviour
MaxIterations == 4  \* iterations of the rate-limited loop in one behaviour
MaxCompute == 4     \* the longest cycle, in ticks
MaxDim == 8         \* the largest image height and width drawn
GapDen == 4         \* relative gaps are drawn as multiples of 1/GapDen
SmoothDen == 4      \* blend factors are drawn as multiples of 1/SmoothDen
MaxReads == 2       \* successful reads of the smoothing worker in one behaviour

\* Time is counted in ticks of 125 ms.
\* reconnection_delay = 0.5 (seconds), the constructor's default
ReconnectionDelay == 4
\* producer.rate_limit = 4: a period of 250 ms, in the same ticks
RatePeriod == 2
\* timers count up to TimeCap and stay there: any longer time acts the same
TimeCap == ReconnectionDelay + 1

\* tile shapes drawn (numpy shapes, rows x cols): a square and a non-square one
TagSizes == {<<2, 2>>, <<1, 3>>}
\* grid shapes drawn for detect_tags (rows x cols); each cell is looked up on
\* its own, so one cell shows what every cell does
GridSizes == {<<1, 1>>}
\* grid shapes whose cells extract_tiles cuts out of an image
GridShapes == {<<1, 1>>, <<2, 2>>, <<5, 1>>, <<1, 3>>}

(***************************************************************************)
(* Values                                                                  *)
(***************************************************************************)
\* Python strings of '0'/'1' characters, as sequences of characters
BitStrings(n) == [1..n -> {"0", "1"}]

\* a numpy uint8 array of 0/1 with a two-dimensional shape, row-major data
NpArray(shape, data) == [shape |-> shape, data |-> data]
AllTiles(shape) == {NpArray(shape, d) : d \in [1..(shape[1] * shape[2]) -> {0, 1}]}

RECURSIVE Pow2(_)
Pow2(n) == IF n = 0 THEN 1 ELSE 2 * Pow2(n - 1)

\* Python's | on non-negative integers
RECURSIVE BitOr(_, _)
BitOr(a, b) ==
    IF a = 0 THEN b
    ELSE IF b = 0 THEN a
    ELSE (IF a % 2 = 1 \/ b % 2 = 1 THEN 1 ELSE 0) + 2 * BitOr(a \div 2, b \div 2)

\* an empty dict, dict[k] = v, dict.get(k, default)
EmptyDict == [k \in {} |-> 0]
DictSet(d, k, v) == [x \in (DOMAIN d) \cup {k} |-> IF x = k THEN v ELSE d[x]]
DictGet(d, k, default) == IF k \in DOMAIN d THEN d[k] ELSE default

(***************************************************************************)
(* TagDetector: the conversions                                            *)
(***************************************************************************)
\* np.fromstring(",".join(list(s)), np.uint8, count, ","): each character is
\* parsed as a decimal number
ParseUint8(c) == CASE c = "0" -> 0 [] c = "1" -> 1

\* string_tag_to_np_tag: the first tag_size[0]*tag_size[1] characters, parsed, reshaped
string_tag_to_np_tag(s, size) ==
    NpArray(size, [i \in 1..(size[1] * size[2]) |-> ParseUint8(s[i])])

\* string_tag_to_int: int(string_tag, 2), digit by digit from the left
RECURSIVE IntBase2(_, _, _)
IntBase2(s, k, acc) ==
    IF k > Len(s) THEN acc
    ELSE IntBase2(s, k + 1, 2 * acc + (IF s[k] = "1" THEN 1 ELSE 0))

string_tag_to_int(s) == IntBase2(s, 1, 0)

\* the loop of np_tag_to_int: mask >>= 1; if bit: int_tag |= mask
RECURSIVE np_tag_to_int_loop(_, _, _, _)
np_tag_to_int_loop(linear, k, mask, int_tag) ==
    IF k > Len(linear) THEN int_tag
    ELSE LET m == mask \div 2
         IN  np_tag_to_int_loop(linear, k + 1, m,
                 IF linear[k] # 0 THEN BitOr(int_tag, m) ELSE int_tag)

\* a slip: the mask starts at 1 and is shifted left, least significant bit first
RECURSIVE np_tag_to_int_lsb_loop(_, _, _, _)
np_tag_to_int_lsb_loop(linear, k, mask, int_tag) ==
    IF k > Len(linear) THEN int_tag
    ELSE np_tag_to_int_lsb_loop(linear, k + 1, 2 * mask,
             IF linear[k] # 0 THEN BitOr(int_tag, mask) ELSE int_tag)

np_tag_to_int_lsb(np_tag, size) ==
    np_tag_to_int_lsb_loop(np_tag.data, 1, 1, 0)

\* np_tag_to_int: reshape to tag_size[0]*tag_size[1] cells, mask = 1 << cells
np_tag_to_int(np_tag, size) ==
    np_tag_to_int_loop(np_tag.data, 1, Pow2(size[1] * size[2]), 0)

\* np.rot90(m): counterclockwise, shape (R, C) becomes (C, R) and
\* result[i][j] = m[j][C - 1 - i]
rot90(m) ==
    LET R == m.shape[1]
        C == m.shape[2]
    IN  NpArray(<<C, R>>,
            [p \in 1..(R * C) |->
                LET i == (p - 1) \div R
                    j == (p - 1) % R
                IN  m.data[j * C + (C - 1 - i) + 1]])

\* the four arrays create_tag_dict registers for one tag, in its order
Rotations(np_tag) ==
    <<np_tag, rot90(np_tag), rot90(rot90(np_tag)), rot90(rot90(rot90(np_tag)))>>

\* one iteration of create_tag_dict's loop: four assignments tag_dict[...] = idx
RegisterTag(d, np_tag, idx, size) ==
    LET r == Rotations(np_tag)
        d1 == DictSet(d, np_tag_to_int(r[1], size), idx)
        d2 == DictSet(d1, np_tag_to_int(r[2], size), idx)
        d3 == DictSet(d2, np_tag_to_int(r[3], size), idx)
    IN  DictSet(d3, np_tag_to_int(r[4], size), idx)

RECURSIVE create_tag_dict_loop(_, _, _, _)
create_tag_dict_loop(string_tags, k, d, size) ==
    IF k > Len(string_tags) THEN d
    ELSE create_tag_dict_loop(string_tags, k + 1,
             RegisterTag(d, string_tag_to_np_tag(string_tags[k], size), k - 1, size),
             size)

\* a slip: an encoding already registered keeps its first index
RegisterTagFirstWins(d, np_tag, idx, size) ==
    LET Put(dd, k) == IF k \in DOMAIN dd THEN dd ELSE DictSet(dd, k, idx)
        r == Rotations(np_tag)
    IN  Put(Put(Put(Put(d, np_tag_to_int(r[1], size)), np_tag_to_int(r[2], size)),
                np_tag_to_int(r[3], size)), np_tag_to_int(r[4], size))

RECURSIVE create_tag_dict_first_wins_loop(_, _, _, _)
create_tag_dict_first_wins_loop(string_tags, k, d, size) ==
    IF k > Len(string_tags) THEN d
    ELSE create_tag_dict_first_wins_loop(string_tags, k + 1,
             RegisterTagFirstWins(d, string_tag_to_np_tag(string_tags[k], size), k - 1, size),
             size)

create_tag_dict_first_wins(string_tags, size) ==
    create_tag_dict_first_wins_loop(string_tags, 1, EmptyDict, size)

\* create_tag_dict: enumerate(string_tags), indices from 0
create_tag_dict(string_tags, size) ==
    create_tag_dict_loop(string_tags, 1, EmptyDict, size)

\* detect_tags: per cell, tag_dict.get(np_tag_to_int(tile), -1)
detect_tags(ts, d, size) ==
    [c \in DOMAIN ts |-> DictGet(d, np_tag_to_int(ts[c], size), -1)]

(***************************************************************************)
(* ThreadSafeContainer (taggridscanner.aux.threading), from section 4.6 of *)
(* the specification: one slot, overwritten by each set, with a "has       *)
(* unread value" flag that reads consume.                                  *)
(***************************************************************************)
\* ThreadSafeContainer(): empty;  ThreadSafeContainer(v): holding v
MbEmpty(default) == [has |-> FALSE, unread |-> FALSE, value |-> default]
MbHolding(v) == [has |-> TRUE, unread |-> TRUE, value |-> v]

\* a slip: a value not yet read is kept, the new one is dropped
MbSetKeepUnread(box, v) == IF box.unread THEN box ELSE MbHolding(v)

\* set(value): replace the slot, mark "has unread"
MbSet(box, v) == [has |-> TRUE, unread |-> TRUE, value |-> v]

\* a slip: set waits until the previous value has been read
MbSetBlocksWhileUnread(box) == box.unread

\* set never waits for a reader
MbSetBlocks(box) == FALSE

\* a slip: a read waits for a value no read has returned yet
MbReadyWhenUnread(box) == box.unread

\* retrieve() and wait() block until a value exists
MbReady(box) == box.has

\* retrieve() / retrieve_nowait(): the slot after the read, "has unread" cleared
MbRetrieved(box) == [box EXCEPT !.unread = FALSE]

\* a slip: an empty slot is read as a stored zero
retrieve_nowait_zero(box) ==
    IF box.has THEN [empty |-> FALSE, value |-> box.value]
    ELSE [empty |-> FALSE, value |-> [n |-> 0, code |-> 0]]

\* retrieve_nowait(): returns at once, with the value, or with the outcome
\* Empty when no value was ever set
retrieve_nowait(box) ==
    IF box.has THEN [empty |-> FALSE, value |-> box.value]
    ELSE [empty |-> TRUE, value |-> box.value]

(***************************************************************************)
(* scan(): values                                                          *)
(***************************************************************************)
\* decoded grids: a 1 x 2 grid of tag ids, -1 for unmatched, flattened
Grids == [1..2 -> {-1, 0}]
\* Python's None where a grid is expected
NoGrid == <<>>
\* DetectTags.create_empty_tags(): all cells -1
EmptyTags == [i \in 1..2 |-> -1]

\* np.array_equal(a, b): the same shape and all elements equal (None has the
\* shape () and equals no grid)
array_equal(a, b) == Len(a) = Len(b) /\ \A i \in 1..Len(a) : a[i] = b[i]

\* cv2.waitKey results: none, ESC, ENTER, SPACE, 'w', 'c'
NoKeyPressed == -1
KeyCodes == {27, 13, 32, 119, 99}
\* no key read from the mailbox (ThreadSafeContainer.Empty)
NoKey == [n |-> 0, code |-> NoKeyPressed]

\* the tuple work() returns; cycle tells an observer which call produced it.
\* (The ROI vertices, and with them rel_corners, are not part of this state.)
WorkResult(n, tag_data, viz) == [cycle |-> n, tag_data |-> tag_data, viz |-> viz]
NoResult == WorkResult(0, NoGrid, FALSE)

\* a slip: forward when the grid differs from the worker's last computed grid
ChangeDetectedAgainstWorker(last_tag_data, tag_data) ==
    ~array_equal(w_last_tag_data, tag_data)

\* scan(): if not np.array_equal(last_tag_data, tag_data)
ChangeDetected(last_tag_data, tag_data) == ~array_equal(last_tag_data, tag_data)

(***************************************************************************)
(* Initial values of each part                                             *)
(***************************************************************************)
NoTile == NpArray(<<0, 0>>, <<>>)

TagIdle ==
    /\ tag_size = <<0, 0>>
    /\ tags = <<>>
    /\ tag_dict = EmptyDict
    /\ tiles = <<>>
    /\ detected_tags = <<>>

EncIdle ==
    /\ np_a = NoTile
    /\ np_b = NoTile
    /\ int_a = -1
    /\ int_b = -1
    /\ string_tag = <<>>
    /\ int_of_string = -1
    /\ int_of_np = -1

\* ROIWorker.__init__, WorkerThread(roi_worker), producer.start(): scan() up to
\* producer.result.wait()
ScanStart ==
    /\ result = MbEmpty(NoResult)
    /\ key_box = MbEmpty(NoKey)
    /\ compute_visualization = MbHolding(TRUE)
    /\ p_pc = "keys"
    /\ cycle = 1
    /\ w_idx = 0
    /\ w_key = NoKey
    /\ w_key_sent = 0
    /\ w_last_tag_data = EmptyTags
    /\ w_tag_data = NoGrid
    /\ w_result = NoResult
    /\ c_pc = "wait"
    /\ c_got = FALSE
    /\ c_value = NoResult
    /\ c_published = 0
    /\ c_last_tag_data = NoGrid
    /\ c_has_window = FALSE
    /\ c_rel_corners = FALSE
    /\ c_notified = FALSE
    /\ published = 0
    /\ skipped = {}
    /\ keys_sent = 0
    /\ last_notified = NoGrid
    /\ prev_notified = NoGrid
    /\ notify_count = 0

\* camera frames, by content; NoFrame is Python's None
Frames == {1, 2}
NoFrame == 0

\* RetrieveImage.__init__ up to line 29, entering __read_and_block_when_disconnected:
\* the capture is not opened, no reconnection has been tried
CamStart ==
    /\ camera_up \in BOOLEAN
    /\ capture_open = FALSE
    /\ rlock = "ctor"
    /\ a_pc = "c_read"
    /\ a_caller = "ctor"
    /\ since_ts = TimeCap
    /\ sleep_left = 0
    /\ last_image = NoFrame
    /\ frame_box = MbEmpty(NoFrame)
    /\ stop_flag = FALSE
    /\ r_pc = "idle"
    /\ r_frame = NoFrame
    /\ r_latest = NoFrame
    /\ r_returns = 0
    /\ d_pc = "idle"
    /\ ever_read_ok = FALSE
    /\ last_published = NoFrame
    /\ since_open = TimeCap
    /\ open_gap = TimeCap
    /\ open_attempts = 0
    /\ since_failure = "nothing"
    /\ cycle_image = NoFrame
    /\ cycle_fails = 0

\* no RetrieveImage in play
CamIdle ==
    /\ camera_up = FALSE
    /\ capture_open = FALSE
    /\ rlock = "none"
    /\ a_pc = "none"
    /\ a_caller = "ctor"
    /\ since_ts = TimeCap
    /\ sleep_left = 0
    /\ last_image = NoFrame
    /\ frame_box = MbEmpty(NoFrame)
    /\ stop_flag = FALSE
    /\ r_pc = "idle"
    /\ r_frame = NoFrame
    /\ r_latest = NoFrame
    /\ r_returns = 0
    /\ d_pc = "idle"
    /\ ever_read_ok = FALSE
    /\ last_published = NoFrame
    /\ since_open = TimeCap
    /\ open_gap = TimeCap
    /\ open_attempts = 0
    /\ since_failure = "nothing"
    /\ cycle_image = NoFrame
    /\ cycle_fails = 0

\* no worker is being timed
RateIdle ==
    /\ rl_pc = "idle"
    /\ rl_elapsed = 0
    /\ rl_sleep_left = 0
    /\ rl_started = 0
    /\ rl_finished = 0
    /\ rl_last_compute = 0
    /\ rl_last_slept = 0
    /\ rl_last_period = 0
    /\ rl_overrun_seen = FALSE

\* no extract_tiles call in play
WinIdle ==
    /\ grid_size = <<0, 0>>
    /\ rel_gaps = <<0, 0>>
    /\ img_shape = <<0, 0>>
    /\ windows = <<>>
    /\ x_pc = "idle"

\* no smoothing in play
SmoothIdle ==
    /\ sm_smooth = 0
    /\ sm_last = <<>>
    /\ sm_prev = <<>>
    /\ sm_image = <<>>
    /\ sm_reads = 0

\* scan() has not been called
StartIdle ==
    /\ st_pc = "idle"
    /\ st_threads = {}
    /\ st_error = "none"

\* no thread in play
LockIdle ==
    /\ lk_pc = <<>>
    /\ lk_depth = <<>>
    /\ lk_parked = <<>>
    /\ lk_has = <<>>
    /\ lk_stop = FALSE

\* no array in play
AliasIdle ==
    /\ al_heap = <<>>
    /\ al_last = 0
    /\ al_box = 0
    /\ al_held = 0
    /\ al_seen = <<>>
    /\ al_smooth = 0
    /\ al_reads = 0

\* no ROIWorker in play
RoiIdle ==
    /\ roi_shape = <<0, 0>>
    /\ roi_idx = 0
    /\ roi_vertices = <<>>
    /\ roi_key_box = MbEmpty(NoKeyPressed)
    /\ roi_sent = 0
    /\ roi_cycles = 0
    /\ roi_before = <<>>
    /\ roi_fresh = FALSE
    /\ roi_applied = NoKeyPressed

MoreIdle == AliasIdle /\ RoiIdle
OtherIdle == WinIdle /\ SmoothIdle /\ StartIdle /\ LockIdle /\ MoreIdle
NotWinIdle == SmoothIdle /\ StartIdle /\ LockIdle /\ MoreIdle
NotSmoothIdle == WinIdle /\ StartIdle /\ LockIdle /\ MoreIdle
NotLockIdle == WinIdle /\ SmoothIdle /\ StartIdle /\ MoreIdle
NotAliasIdle == WinIdle /\ SmoothIdle /\ StartIdle /\ LockIdle /\ RoiIdle
NotRoiIdle == WinIdle /\ SmoothIdle /\ StartIdle /\ LockIdle /\ AliasIdle

(***************************************************************************)
(* TagDetector as a state machine                                          *)
(***************************************************************************)
\* TagDetector.__init__(grid_size, tag_size, rel_gaps, tags)
TagInit ==
    /\ tag_size \in TagSizes
    /\ \E n \in 0..MaxTags : tags \in [1..n -> BitStrings(tag_size[1] * tag_size[2])]
    /\ tag_dict = create_tag_dict(tags, tag_size)
    /\ tiles = <<>>
    /\ detected_tags = <<>>
    /\ EncIdle
    /\ ScanStart
    /\ CamIdle
    /\ RateIdle
    /\ OtherIdle

\* TagDetector.detect_tags(tiles) on a grid of tiles of the configured size
DetectTags ==
    /\ \E g \in GridSizes :
         \E ts \in [1..(g[1] * g[2]) -> AllTiles(tag_size)] :
            /\ tiles' = ts
            /\ detected_tags' = detect_tags(ts, tag_dict, tag_size)
    /\ UNCHANGED <<tag_size, tags, tag_dict>>
    /\ UNCHANGED <<encVars, scanVars, camVars, rateVars, otherVars>>

TagNext == DetectTags

SpecTags == TagInit /\ [][TagNext]_vars

(***************************************************************************)
(* TagDetector.tile_window, reduce_tile and extract_tiles                  *)
(***************************************************************************)
Min(a, b) == IF a < b THEN a ELSE b
Max(a, b) == IF a > b THEN a ELSE b

\* math.floor(num / den) for den > 0
Floor(num, den) == IF num >= 0 THEN num \div den ELSE -((-num + den - 1) \div den)

\* tile_window, lines 120-127 (and 129-136 for the other axis), with the
\* relative gap gap / GapDen and in exact arithmetic:
\*   tile_with_gap = dim * (GapDen + gap) / (GapDen * count)
\*   tile          = tile_with_gap - dim * gap / GapDen
AxisStart(dim, count, gap, index) ==
    Min(Floor(index * dim * (GapDen + gap), GapDen * count), dim - 1)

AxisEnd(dim, count, gap, index) ==
    Min(Floor(dim * ((index + 1) * (GapDen + gap) - gap * count), GapDen * count), dim - 1)

\* tile_window(img, grid_x, grid_y), lines 119-140: the bounds of the slice
\* img[y_start:y_end, x_start:x_end]
tile_window(shape, grid, gaps, grid_x, grid_y) ==
    [y_start |-> AxisStart(shape[1], grid[1], gaps[1], grid_y),
     y_end   |-> AxisEnd(shape[1], grid[1], gaps[1], grid_y),
     x_start |-> AxisStart(shape[2], grid[2], gaps[2], grid_x),
     x_end   |-> AxisEnd(shape[2], grid[2], gaps[2], grid_x)]

\* the indices a slice start:stop selects on an axis of length dim: a negative
\* stop counts from the end
SliceIndices(dim, start, stop) ==
    LET hi == IF stop < 0 THEN Max(stop + dim, 0) ELSE Min(stop, dim)
    IN  {i \in 0..(dim - 1) : start <= i /\ i < hi}

\* the pixels of the image a window holds
WindowPixels(shape, w) ==
    SliceIndices(shape[1], w.y_start, w.y_end) \X SliceIndices(shape[2], w.x_start, w.x_end)

\* the cells of the grid in the order of extract_tiles' loops, lines 60-61
Cells(grid) == {<<grid_y, grid_x>> : grid_y \in 0..(grid[1] - 1), grid_x \in 0..(grid[2] - 1)}
CellBefore(a, b) == a[1] < b[1] \/ (a[1] = b[1] /\ a[2] < b[2])

\* reduce_tile, lines 142-151: cv2.resize raises cv2.error on an image
\* without pixels
ReduceTileRaises(shape, w) == WindowPixels(shape, w) = {}

\* TagDetector.__init__ with one 1 x 1 pattern, and the image of a call
WinInit ==
    /\ tag_size = <<1, 1>>
    /\ tags = << <<"1">> >>
    /\ tag_dict = create_tag_dict(tags, tag_size)
    /\ tiles = <<>>
    /\ detected_tags = <<>>
    /\ EncIdle
    /\ ScanStart
    /\ CamIdle
    /\ RateIdle
    /\ grid_size \in GridShapes
    /\ rel_gaps \in (0..(GapDen - 1)) \X (0..(GapDen - 1))
    /\ img_shape \in {sh \in (1..MaxDim) \X (1..MaxDim) :
                        sh[1] >= grid_size[1] /\ sh[2] >= grid_size[2]}
    /\ windows = <<>>
    /\ x_pc = "idle"
    /\ NotWinIdle

\* tile_window applied to every cell of the grid
TileWindows ==
    /\ x_pc = "idle"
    /\ windows' = [c \in Cells(grid_size) |->
                     tile_window(img_shape, grid_size, rel_gaps, c[2], c[1])]
    /\ x_pc' = "windows"
    /\ UNCHANGED <<grid_size, rel_gaps, img_shape>>
    /\ UNCHANGED <<tagVars, encVars, scanVars, camVars, rateVars, notWinVars>>

\* extract_tiles(img), lines 58-65: every cell's window is cut out and
\* reduced; the first window without pixels ends the call with cv2.error
ExtractTiles ==
    /\ x_pc \in {"idle", "windows"}
    /\ LET ws == [c \in Cells(grid_size) |->
                    tile_window(img_shape, grid_size, rel_gaps, c[2], c[1])]
           raising == {c \in Cells(grid_size) : ReduceTileRaises(img_shape, ws[c])}
       IN  IF raising # {}
           THEN /\ x_pc' = "raised"
                /\ \E c \in raising :
                     /\ \A d \in raising : d = c \/ CellBefore(c, d)
                     /\ windows' = [d \in {e \in Cells(grid_size) : e = c \/ CellBefore(e, c)}
                                      |-> ws[d]]
                /\ UNCHANGED tiles
           ELSE /\ x_pc' = "extracted"
                /\ windows' = ws
                /\ tiles' \in [Cells(grid_size) -> AllTiles(tag_size)]
    /\ UNCHANGED <<tag_size, tags, tag_dict, detected_tags>>
    /\ UNCHANGED <<grid_size, rel_gaps, img_shape>>
    /\ UNCHANGED <<encVars, scanVars, camVars, rateVars, notWinVars>>

\* detect_tags(tiles), lines 67-74, on the tiles extract_tiles returned
DetectExtracted ==
    /\ x_pc = "extracted"
    /\ detected_tags' = detect_tags(tiles, tag_dict, tag_size)
    /\ x_pc' = "detected"
    /\ UNCHANGED <<tag_size, tags, tag_dict, tiles>>
    /\ UNCHANGED <<grid_size, rel_gaps, img_shape, windows>>
    /\ UNCHANGED <<encVars, scanVars, camVars, rateVars, notWinVars>>

WinNext == TileWindows \/ ExtractTiles \/ DetectExtracted

SpecWin == WinInit /\ [][WinNext]_vars

(***************************************************************************)
(* RetrieveImage.__read, lines 57-69: the smoothing of the stored frame    *)
(***************************************************************************)
\* pixel values drawn, and frames of two pixels in two shapes and two types
PixelValues == {0, 1, 3}
FrameShapes == {<<1, 2>>, <<2, 1>>}
PixelTypes == {"uint8", "uint16"}
PixelFrames == [shape : FrameShapes, dtype : PixelTypes, px : [1..2 -> PixelValues]]

\* compatible(a, b): the same shape and the same pixel type
compatible(a, b) == a.shape = b.shape /\ a.dtype = b.dtype

\* cvRound(num / den) for num >= 0, den > 0: to the nearest integer, a tie to
\* the even one
RoundHalfEven(num, den) ==
    LET q == num \div den
        r == num % den
    IN  IF 2 * r < den THEN q
        ELSE IF 2 * r > den THEN q + 1
        ELSE IF q % 2 = 0 THEN q ELSE q + 1

\* cv2.addWeighted(src1, alpha, src2, 1 - alpha, 0.0) with alpha = smooth /
\* SmoothDen, pixel by pixel
addWeighted(src1, smooth, src2) ==
    [src1 EXCEPT !.px = [i \in DOMAIN src1.px |->
        RoundHalfEven(smooth * src1.px[i] + (SmoothDen - smooth) * src2.px[i], SmoothDen)]]

\* a slip: the weights of the two frames are exchanged
UpdatedLastImageSwapped(last, image, smooth) ==
    IF ~compatible(last, image) \/ smooth = 0
    THEN image
    ELSE addWeighted(image, smooth, last)

\* lines 57-68: the stored frame after a successful read
UpdatedLastImage(last, image, smooth) ==
    IF ~compatible(last, image) \/ smooth = 0
    THEN image
    ELSE addWeighted(last, smooth, image)

\* RetrieveImage.__init__ with a blend factor; the first frame is stored
SmoothInit ==
    /\ TagIdle
    /\ EncIdle
    /\ ScanStart
    /\ CamIdle
    /\ RateIdle
    /\ NotSmoothIdle
    /\ sm_smooth \in 0..(SmoothDen - 1)
    /\ sm_last \in PixelFrames
    /\ sm_prev = <<>>
    /\ sm_image = <<>>
    /\ sm_reads = 0

\* __read with a successful capture.read(): lines 52 and 57-69
SmoothRead ==
    /\ sm_reads < MaxReads
    /\ \E image \in PixelFrames :
         /\ sm_image' = image
         /\ sm_prev' = sm_last
         /\ sm_last' = UpdatedLastImage(sm_last, image, sm_smooth)
    /\ sm_reads' = sm_reads + 1
    /\ UNCHANGED sm_smooth
    /\ UNCHANGED <<tagVars, encVars, scanVars, camVars, rateVars, notSmoothVars>>

SmoothNext == SmoothRead

SpecSmooth == SmoothInit /\ [][SmoothNext]_vars

(***************************************************************************)
(* ROIWorker.work, lines 149-190: the keys and the ROI editor state.       *)
(* Coordinates are in quarter pixels, the small step of a vertex.          *)
(***************************************************************************)
VertStepSmall == 1      \* vert_step_small = 0.25
VertStepBig == 40       \* vert_step_big = 10.0
\* (self.h, self.w): an image of 8 x 12 pixels
RoiShapes == {<<32, 48>>}
\* keys the consumer loop passes on: w a s d W A S D, SPACE, c, and x
RoiKeys == {119, 97, 115, 100, 87, 65, 83, 68, 32, 99, 120}

\* default_vertices, lines 139-147
default_vertices(shape) ==
    LET h == shape[1]
        w == shape[2]
    IN  << <<w \div 4, h \div 4>>, <<(3 * w) \div 4, h \div 4>>,
           <<(3 * w) \div 4, (3 * h) \div 4>>, <<w \div 4, (3 * h) \div 4>> >>

\* rel_corners_to_abs_corners of the configured roi, line 98: the default
\* square, or corners of which some lie outside the image
RoiConfigs(shape) ==
    {default_vertices(shape),
     << <<-4, -4>>, <<shape[2] + 8, 0>>, <<shape[2], shape[1] + 4>>, <<0, shape[1]>> >>}

\* a slip: height and width exchanged
clamp_points_swapped(points, shape) ==
    [i \in 1..4 |-> << Max(0, Min(points[i][1], shape[1])),
                       Max(0, Min(points[i][2], shape[2])) >>]

\* clamp_points, lines 35-38: x into [0, img_shape[1]], y into [0, img_shape[0]]
clamp_points(points, shape) ==
    [i \in 1..4 |-> << Max(0, Min(points[i][1], shape[2])),
                       Max(0, Min(points[i][2], shape[1])) >>]

\* self.vertices[self.idx][0] += dx; self.vertices[self.idx][1] += dy
MoveVertex(vertices, idx, dx, dy) ==
    [vertices EXCEPT ![idx + 1] = <<vertices[idx + 1][1] + dx, vertices[idx + 1][2] + dy>>]

\* lines 156-177: the vertices and the active index after the key
KeyApplied(vertices, idx, shape, key) ==
    CASE key = 119 -> [vertices |-> MoveVertex(vertices, idx, 0, -VertStepSmall), idx |-> idx]
      [] key = 97  -> [vertices |-> MoveVertex(vertices, idx, -VertStepSmall, 0), idx |-> idx]
      [] key = 115 -> [vertices |-> MoveVertex(vertices, idx, 0, VertStepSmall), idx |-> idx]
      [] key = 100 -> [vertices |-> MoveVertex(vertices, idx, VertStepSmall, 0), idx |-> idx]
      [] key = 87  -> [vertices |-> MoveVertex(vertices, idx, 0, -VertStepBig), idx |-> idx]
      [] key = 65  -> [vertices |-> MoveVertex(vertices, idx, -VertStepBig, 0), idx |-> idx]
      [] key = 83  -> [vertices |-> MoveVertex(vertices, idx, 0, VertStepBig), idx |-> idx]
      [] key = 68  -> [vertices |-> MoveVertex(vertices, idx, VertStepBig, 0), idx |-> idx]
      [] key = 32  -> [vertices |-> vertices, idx |-> (idx + 1) % 4]
      [] key = 99  -> [vertices |-> default_vertices(shape), idx |-> idx]
      [] OTHER     -> [vertices |-> vertices, idx |-> idx]

\* ROIWorker.__init__, lines 94-98 and 128
RoiInit ==
    /\ TagIdle
    /\ EncIdle
    /\ ScanStart
    /\ CamIdle
    /\ RateIdle
    /\ NotRoiIdle
    /\ roi_shape \in RoiShapes
    /\ roi_idx = 0
    /\ roi_vertices \in RoiConfigs(roi_shape)
    /\ roi_key_box = MbEmpty(NoKeyPressed)
    /\ roi_sent = 0
    /\ roi_cycles = 0
    /\ roi_before = <<>>
    /\ roi_fresh = FALSE
    /\ roi_applied = NoKeyPressed

\* scan(), lines 336-354: a key other than ESC and ENTER is put into the
\* worker's key mailbox
RoiKeyPress ==
    /\ roi_sent < MaxKeys
    /\ \E key \in RoiKeys : roi_key_box' = MbSet(roi_key_box, key)
    /\ roi_sent' = roi_sent + 1
    /\ UNCHANGED <<roi_shape, roi_idx, roi_vertices, roi_cycles, roi_before, roi_fresh,
                   roi_applied>>
    /\ UNCHANGED <<tagVars, encVars, scanVars, camVars, rateVars, notRoiVars>>

\* ROIWorker.work, lines 152-190: the key is taken from the mailbox and
\* applied, the vertices are clamped and handed to the ROI extraction
RoiWork ==
    /\ roi_cycles < MaxCycles
    /\ LET got == retrieve_nowait(roi_key_box)
           after == IF got.empty
                    THEN [vertices |-> roi_vertices, idx |-> roi_idx]
                    ELSE KeyApplied(roi_vertices, roi_idx, roi_shape, got.value)
       IN  /\ roi_vertices' = clamp_points(after.vertices, roi_shape)
           /\ roi_idx' = after.idx
           /\ roi_key_box' = IF got.empty THEN roi_key_box ELSE MbRetrieved(roi_key_box)
           /\ roi_applied' = IF got.empty THEN NoKeyPressed ELSE got.value
    /\ roi_before' = [vertices |-> roi_vertices, idx |-> roi_idx]
    /\ roi_fresh' = roi_key_box.unread
    /\ roi_cycles' = roi_cycles + 1
    /\ UNCHANGED <<roi_shape, roi_sent>>
    /\ UNCHANGED <<tagVars, encVars, scanVars, camVars, rateVars, notRoiVars>>

RoiNext == RoiKeyPress \/ RoiWork

SpecRoi == RoiInit /\ [][RoiNext]_vars

(***************************************************************************)
(* RetrieveImage: the stored frame and the frames handed out, as arrays    *)
(* with an identity.  The worker's mailbox holds a reference to what       *)
(* __read returned (section 4.6 of the specification: one slot).           *)
(***************************************************************************)
\* frames drawn here: two shapes, one pixel type, both pixels alike
AliasFrames == {f \in PixelFrames : f.dtype = "uint8" /\ f.px[1] = f.px[2] /\ f.px[1] # 0}

\* line 58 and 61-68: cv2.addWeighted(..., dst=self.__last_image) writes into
\* the array self.__last_image refers to; line 59 makes it refer to the new one
WritesInPlace(last, image, smooth) == compatible(last, image) /\ smooth # 0

\* RetrieveImage.__init__: the first frame is stored, nothing published yet
AliasInit ==
    /\ TagIdle
    /\ EncIdle
    /\ ScanStart
    /\ CamIdle
    /\ RateIdle
    /\ NotAliasIdle
    /\ al_smooth \in 0..(SmoothDen - 1)
    /\ \E f \in AliasFrames : al_heap = <<f>>
    /\ al_last = 1
    /\ al_box = 0
    /\ al_held = 0
    /\ al_seen = <<>>
    /\ al_reads = 0

\* one iteration of the worker: __read with a successful capture.read(), which
\* allocates the array it returns (lines 52, 57-69), and the result put into
\* the mailbox
AcquisitionCycle ==
    /\ al_reads < MaxReads
    /\ \E image \in AliasFrames :
         IF WritesInPlace(al_heap[al_last], image, al_smooth)
         THEN /\ al_heap' = [al_heap EXCEPT ![al_last] =
                                UpdatedLastImage(al_heap[al_last], image, al_smooth)]
              /\ al_last' = al_last
              /\ al_box' = al_last
         ELSE /\ al_heap' = Append(al_heap, UpdatedLastImage(al_heap[al_last], image, al_smooth))
              /\ al_last' = Len(al_heap) + 1
              /\ al_box' = Len(al_heap) + 1
    /\ al_reads' = al_reads + 1
    /\ UNCHANGED <<al_held, al_seen, al_smooth>>
    /\ UNCHANGED <<tagVars, encVars, scanVars, camVars, rateVars, notAliasVars>>

\* read(), lines 37-40: the array in the mailbox is returned
AliasRead ==
    /\ al_box # 0
    /\ al_held' = al_box
    /\ al_seen' = al_heap[al_box]
    /\ UNCHANGED <<al_heap, al_last, al_box, al_smooth, al_reads>>
    /\ UNCHANGED <<tagVars, encVars, scanVars, camVars, rateVars, notAliasVars>>

AliasNext == AcquisitionCycle \/ AliasRead

SpecAlias == AliasInit /\ [][AliasNext]_vars

(***************************************************************************)
(* The start of scan(): ROIWorker.__init__ and the producer thread         *)
(***************************************************************************)
\* configurations drawn: grid shapes with and without a non-positive
\* dimension, one tag whose length is, or is not, that of the tile
ConfigGrids == {<<1, 1>>, <<0, 1>>, <<2, -1>>}
ConfigTagLengths == {3, 4, 5}

\* create_tag_dict, lines 108-109: np.fromstring(...).reshape(tag_size) raises
\* ValueError when a tag has fewer characters than the tile has cells; of a
\* longer tag the first tag_size[0]*tag_size[1] characters are read
create_tag_dict_raises(string_tags, size) ==
    \E k \in 1..Len(string_tags) : Len(string_tags[k]) < size[1] * size[2]

\* scan() is called with a configuration
StartInit ==
    /\ tag_size \in TagSizes
    /\ \E n \in ConfigTagLengths : tags \in [1..1 -> BitStrings(n)]
    /\ tag_dict = EmptyDict
    /\ tiles = <<>>
    /\ detected_tags = <<>>
    /\ EncIdle
    /\ ScanStart
    /\ CamIdle
    /\ RateIdle
    /\ SmoothIdle
    /\ LockIdle
    /\ MoreIdle
    /\ grid_size \in ConfigGrids
    /\ rel_gaps = <<0, 0>>
    /\ img_shape = <<0, 0>>
    /\ windows = <<>>
    /\ x_pc = "idle"
    /\ st_pc = "begin"
    /\ st_threads = {}
    /\ st_error = "none"

\* ROIWorker.__init__, line 91: the image source is created; the constructor
\* of RetrieveImage, lines 29-31, starts the acquisition worker thread
StartImageSource ==
    /\ st_pc = "begin"
    /\ st_threads' = st_threads \cup {"acquisition"}
    /\ st_pc' = "source"
    /\ UNCHANGED st_error
    /\ UNCHANGED <<tagVars, encVars, scanVars, camVars, rateVars, notStartVars>>

\* ROIWorker.__init__, lines 108-126: the detector is built from grid, tile and
\* tags as TagDetector.__init__ builds it, lines 33-38
StartDetector ==
    /\ st_pc = "source"
    /\ IF create_tag_dict_raises(tags, tag_size)
       THEN /\ st_pc' = "failed"
            /\ st_error' = "ValueError"
            /\ UNCHANGED tag_dict
       ELSE /\ st_pc' = "built"
            /\ tag_dict' = create_tag_dict(tags, tag_size)
            /\ UNCHANGED st_error
    /\ UNCHANGED st_threads
    /\ UNCHANGED <<tag_size, tags, tiles, detected_tags>>
    /\ UNCHANGED <<encVars, scanVars, camVars, rateVars, notStartVars>>

\* scan(), lines 265-267: the producer thread is started
StartProducer ==
    /\ st_pc = "built"
    /\ st_threads' = st_threads \cup {"decode"}
    /\ st_pc' = "running"
    /\ UNCHANGED st_error
    /\ UNCHANGED <<tagVars, encVars, scanVars, camVars, rateVars, notStartVars>>

StartNext == StartImageSource \/ StartDetector \/ StartProducer

SpecStart == StartInit /\ [][StartNext]_vars

(***************************************************************************)
(* Who takes which lock: the camera lock of RetrieveImage and the mutexes  *)
(* of the mailboxes (one per mailbox, section 5), in the order of the code *)
(***************************************************************************)
Threads == {"worker", "decode", "main", "del"}
Mailboxes == {"frame", "result", "key", "cv", "newline"}
Locks == {"rlock"} \cup Mailboxes

\* one locking step: acq and rel take and give back a lock (all of them
\* reentrant), await waits on a mailbox's condition until a value has been
\* set, set stores a value and wakes the waiting, stop tells the worker to stop
Op(kind, lock) == [kind |-> kind, lock |-> lock]

\* a mailbox operation takes the mailbox's own mutex and nothing else
MbOp(mb) == <<Op("acq", mb), Op("rel", mb)>>
MbWait(mb) == <<Op("acq", mb), Op("await", mb), Op("rel", mb)>>
MbPut(mb) == <<Op("acq", mb), Op("set", mb), Op("rel", mb)>>

\* the acquisition thread: __read takes the lock (line 51), reconnect takes it
\* again (line 72); after __read has returned the WorkerThread stores the frame
WorkerProgram ==
    <<Op("acq", "rlock"), Op("acq", "rlock"), Op("rel", "rlock"), Op("rel", "rlock")>>
    \o MbPut("frame")

\* the decode thread: work() reads the key (line 153), the frame (line 185)
\* and the visualization flag (line 204); the WorkerThread stores the result
DecodeProgram ==
    MbOp("key") \o MbWait("frame") \o MbOp("cv") \o MbPut("result")

\* a slip: the key is handed over inside the with block of line 315
MainProgramKeyInside ==
    <<Op("acq", "rlock"), Op("rel", "rlock")>>
    \o MbWait("result")
    \o MbOp("result")
    \o MbOp("newline")
    \o <<Op("acq", "cv")>> \o MbOp("cv") \o MbPut("cv") \o MbPut("key") \o <<Op("rel", "cv")>>
    \o MbPut("cv")
    \o MbOp("cv")

\* the main thread: ROIWorker.__init__ asks for image_source.size (line 94,
\* under the camera lock), scan() waits for the first result (line 268), then
\* loops: the result (277), the newline detector (313), the visualization flag
\* inside its condition (315-320), again (326, 329), the key (354)
MainProgram ==
    <<Op("acq", "rlock"), Op("rel", "rlock")>>
    \o MbWait("result")
    \o MbOp("result")
    \o MbOp("newline")
    \o <<Op("acq", "cv")>> \o MbOp("cv") \o MbPut("cv") \o <<Op("rel", "cv")>>
    \o MbPut("cv")
    \o MbOp("cv")
    \o MbPut("key")

\* __del, lines 96-99: under the camera lock the worker is told to stop
DelProgram ==
    <<Op("acq", "rlock"), Op("stop", "rlock"), Op("rel", "rlock")>>

Program(t) ==
    CASE t = "worker" -> WorkerProgram
      [] t = "decode" -> DecodeProgram
      [] t = "main" -> MainProgram
      [] t = "del" -> DelProgram

\* where a thread goes on after its last step: the loops start over, the main
\* thread at the top of its while loop (line 274), __del is done
LoopStart(t) ==
    CASE t = "worker" -> 1
      [] t = "decode" -> 1
      [] t = "main" -> 6
      [] t = "del" -> Len(DelProgram) + 1

Finished(t) == lk_pc[t] > Len(Program(t))
NextOp(t) == Program(t)[lk_pc[t]]
Holder(l) == {t \in Threads : lk_depth[t][l] > 0}
Held(t) == {l \in Locks : lk_depth[t][l] > 0}

\* the thread cannot go on: the lock it asks for is held by another thread
BlockedOnLock(t) ==
    /\ ~Finished(t)
    /\ ~lk_parked[t]
    /\ NextOp(t).kind = "acq"
    /\ Holder(NextOp(t).lock) \ {t} # {}

\* the thread has a step it can take
CanStep(t) ==
    /\ ~Finished(t)
    /\ IF lk_parked[t]
       THEN lk_has[NextOp(t).lock] /\ Holder(NextOp(t).lock) = {}
       ELSE ~BlockedOnLock(t)

\* the worker started by RetrieveImage.__init__, the producer started by
\* scan(), the main thread in ROIWorker.__init__, and a caller of __del
LockInit ==
    /\ TagIdle
    /\ EncIdle
    /\ ScanStart
    /\ CamIdle
    /\ RateIdle
    /\ NotLockIdle
    /\ lk_pc = [t \in Threads |-> 1]
    /\ lk_depth = [t \in Threads |-> [l \in Locks |-> 0]]
    /\ lk_parked = [t \in Threads |-> FALSE]
    /\ lk_has = [m \in Mailboxes |-> m = "cv"]
    /\ lk_stop = FALSE

\* the next step of thread t
LockStep(t) ==
    /\ CanStep(t)
    /\ LET op == NextOp(t)
           after == IF lk_pc[t] = Len(Program(t))
                    THEN (IF t = "worker" /\ lk_stop THEN lk_pc[t] + 1 ELSE LoopStart(t))
                    ELSE lk_pc[t] + 1
       IN  CASE lk_parked[t] ->
                  /\ lk_depth' = [lk_depth EXCEPT ![t][op.lock] = 1]
                  /\ lk_parked' = [lk_parked EXCEPT ![t] = FALSE]
                  /\ lk_pc' = [lk_pc EXCEPT ![t] = after]
                  /\ UNCHANGED <<lk_has, lk_stop>>
              [] ~lk_parked[t] /\ op.kind = "acq" ->
                  /\ lk_depth' = [lk_depth EXCEPT ![t][op.lock] = @ + 1]
                  /\ lk_pc' = [lk_pc EXCEPT ![t] = after]
                  /\ UNCHANGED <<lk_parked, lk_has, lk_stop>>
              [] ~lk_parked[t] /\ op.kind = "rel" ->
                  /\ lk_depth' = [lk_depth EXCEPT ![t][op.lock] = @ - 1]
                  /\ lk_pc' = [lk_pc EXCEPT ![t] = after]
                  /\ UNCHANGED <<lk_parked, lk_has, lk_stop>>
              [] ~lk_parked[t] /\ op.kind = "await" ->
                  IF lk_has[op.lock]
                  THEN /\ lk_pc' = [lk_pc EXCEPT ![t] = after]
                       /\ UNCHANGED <<lk_depth, lk_parked, lk_has, lk_stop>>
                  ELSE /\ lk_depth' = [lk_depth EXCEPT ![t][op.lock] = 0]
                       /\ lk_parked' = [lk_parked EXCEPT ![t] = TRUE]
                       /\ UNCHANGED <<lk_pc, lk_has, lk_stop>>
              [] ~lk_parked[t] /\ op.kind = "set" ->
                  /\ lk_has' = [lk_has EXCEPT ![op.lock] = TRUE]
                  /\ lk_pc' = [lk_pc EXCEPT ![t] = after]
                  /\ UNCHANGED <<lk_depth, lk_parked, lk_stop>>
              [] ~lk_parked[t] /\ op.kind = "stop" ->
                  /\ lk_stop' = TRUE
                  /\ lk_pc' = [lk_pc EXCEPT ![t] = after]
                  /\ UNCHANGED <<lk_depth, lk_parked, lk_has>>
    /\ UNCHANGED <<tagVars, encVars, scanVars, camVars, rateVars, notLockVars>>

WorkerLockStep == LockStep("worker")
DecodeLockStep == LockStep("decode")
MainLockStep == LockStep("main")
DelLockStep == LockStep("del")

LockNext == WorkerLockStep \/ DecodeLockStep \/ MainLockStep \/ DelLockStep

SpecLocks == LockInit /\ [][LockNext]_vars

(***************************************************************************)
(* TagDetector: assignments to tag_size and tags                           *)
(***************************************************************************)
\* tag lists assigned: none or one tag, of three or four characters
SetterTags == {<<>>} \cup {<<s>> : s \in BitStrings(3) \cup BitStrings(4)}

\* TagDetector.__init__ that returned: create_tag_dict did not raise
SetInit ==
    /\ tag_size \in TagSizes
    /\ tags \in SetterTags
    /\ ~create_tag_dict_raises(tags, tag_size)
    /\ tag_dict = create_tag_dict(tags, tag_size)
    /\ tiles = <<>>
    /\ detected_tags = <<>>
    /\ EncIdle
    /\ ScanStart
    /\ CamIdle
    /\ RateIdle
    /\ OtherIdle

\* tag_size.setter, lines 44-47: the size is stored, then the catalog rebuilt;
\* a ValueError of create_tag_dict leaves the catalog as it was
SetTagSize ==
    /\ \E s \in TagSizes :
         /\ tag_size' = s
         /\ tag_dict' = IF create_tag_dict_raises(tags, s)
                        THEN tag_dict
                        ELSE create_tag_dict(tags, s)
    /\ UNCHANGED <<tags, tiles, detected_tags>>
    /\ UNCHANGED <<encVars, scanVars, camVars, rateVars, otherVars>>

\* tags.setter, lines 53-56: the list is stored, then the catalog rebuilt
SetTags ==
    /\ \E t \in SetterTags :
         /\ tags' = t
         /\ tag_dict' = IF create_tag_dict_raises(t, tag_size)
                        THEN tag_dict
                        ELSE create_tag_dict(t, tag_size)
    /\ UNCHANGED <<tag_size, tiles, detected_tags>>
    /\ UNCHANGED <<encVars, scanVars, camVars, rateVars, otherVars>>

SetNext == SetTagSize \/ SetTags

SpecSet == SetInit /\ [][SetNext]_vars

(***************************************************************************)
(* The encoding functions applied to drawn tiles and strings               *)
(***************************************************************************)
EncInit ==
    /\ tag_size \in TagSizes
    /\ tags = <<>>
    /\ tag_dict = EmptyDict
    /\ tiles = <<>>
    /\ detected_tags = <<>>
    /\ EncIdle
    /\ ScanStart
    /\ CamIdle
    /\ RateIdle
    /\ OtherIdle

EncodeTiles ==
    /\ \E a \in AllTiles(tag_size), b \in AllTiles(tag_size) :
          /\ np_a' = a
          /\ np_b' = b
          /\ int_a' = np_tag_to_int(a, tag_size)
          /\ int_b' = np_tag_to_int(b, tag_size)
    /\ UNCHANGED <<string_tag, int_of_string, int_of_np>>
    /\ UNCHANGED <<tagVars, scanVars, camVars, rateVars, otherVars>>

EncodeString ==
    /\ \E s \in BitStrings(tag_size[1] * tag_size[2]) :
          /\ string_tag' = s
          /\ int_of_string' = string_tag_to_int(s)
          /\ int_of_np' = np_tag_to_int(string_tag_to_np_tag(s, tag_size), tag_size)
    /\ UNCHANGED <<np_a, np_b, int_a, int_b>>
    /\ UNCHANGED <<tagVars, scanVars, camVars, rateVars, otherVars>>

EncNext == EncodeTiles \/ EncodeString

SpecEnc == EncInit /\ [][EncNext]_vars

(***************************************************************************)
(* scan(): the producer thread, WorkerThread(roi_worker)                   *)
(***************************************************************************)
\* ROIWorker.work, lines 149-183: the key
WorkKeys ==
    /\ p_pc = "keys"
    /\ cycle <= MaxCycles
    /\ LET got == retrieve_nowait(key_box)
       IN  IF ~got.empty
           THEN /\ w_key' = got.value
                /\ key_box' = MbRetrieved(key_box)
                /\ w_idx' = IF got.value.code = 32 THEN (w_idx + 1) % 4 ELSE w_idx
           ELSE /\ w_key' = NoKey
                /\ UNCHANGED <<key_box, w_idx>>
    /\ w_key_sent' = keys_sent
    /\ p_pc' = "decode"
    /\ UNCHANGED <<result, compute_visualization, cycle, w_last_tag_data, w_tag_data,
                   w_result>>
    /\ UNCHANGED <<consVars, seenVars, tagVars, encVars, camVars, rateVars, otherVars>>

\* ROIWorker.work, lines 185-201: the frame is read and decoded into a grid,
\* which depends on the scene
WorkDecode ==
    /\ p_pc = "decode"
    /\ \E tag_data \in Grids :
          /\ w_tag_data' = tag_data
          /\ w_last_tag_data' = IF ~array_equal(w_last_tag_data, tag_data)
                                THEN tag_data ELSE w_last_tag_data
    /\ p_pc' = "viz"
    /\ UNCHANGED <<boxVars, cycle, w_idx, w_key, w_key_sent, w_result>>
    /\ UNCHANGED <<consVars, seenVars, tagVars, encVars, camVars, rateVars, otherVars>>

\* ROIWorker.work, lines 203-233: the visualization and the return value
WorkReturn ==
    /\ p_pc = "viz"
    /\ LET viz == MbReady(compute_visualization) /\ compute_visualization.value
       IN  w_result' = WorkResult(cycle, w_tag_data, viz)
    /\ p_pc' = "publish"
    /\ UNCHANGED <<boxVars, cycle, w_idx, w_key, w_key_sent, w_last_tag_data, w_tag_data>>
    /\ UNCHANGED <<consVars, seenVars, tagVars, encVars, camVars, rateVars, otherVars>>

\* WorkerThread: the result of the cycle is put into the mailbox
Publish ==
    /\ p_pc = "publish"
    /\ ~MbSetBlocks(result)
    /\ result' = MbSet(result, w_result)
    /\ published' = published + 1
    /\ skipped' = IF result.unread THEN skipped \cup {result.value.cycle} ELSE skipped
    /\ p_pc' = "sleep"
    /\ UNCHANGED <<key_box, compute_visualization, cycle, w_idx, w_key, w_key_sent,
                   w_last_tag_data, w_tag_data, w_result>>
    /\ UNCHANGED <<keys_sent, last_notified, prev_notified, notify_count>>
    /\ UNCHANGED <<consVars, tagVars, encVars, camVars, rateVars, otherVars>>

\* WorkerThread: the rate limiter's sleep, then the next cycle
RateSleep ==
    /\ p_pc = "sleep"
    /\ p_pc' = "keys"
    /\ cycle' = cycle + 1
    /\ UNCHANGED <<boxVars, w_idx, w_key, w_key_sent, w_last_tag_data, w_tag_data, w_result>>
    /\ UNCHANGED <<consVars, seenVars, tagVars, encVars, camVars, rateVars, otherVars>>

ProducerNext == WorkKeys \/ WorkDecode \/ WorkReturn \/ Publish \/ RateSleep

(***************************************************************************)
(* scan(): the consumer loop                                               *)
(***************************************************************************)
\* line 268: producer.result.wait()
ConsumerWait ==
    /\ c_pc = "wait"
    /\ MbReady(result)
    /\ c_pc' = "retrieve"
    /\ UNCHANGED <<c_got, c_value, c_published, c_last_tag_data, c_has_window,
                   c_rel_corners, c_notified>>
    /\ UNCHANGED <<boxVars, prodVars, seenVars, tagVars, encVars, camVars, rateVars, otherVars>>

\* lines 274-307: the result is fetched, forwarded when changed, and shown
ConsumerRetrieve ==
    /\ c_pc = "retrieve"
    /\ IF ~retrieve_nowait(result).empty
       THEN LET v == retrieve_nowait(result).value
                changed == ChangeDetected(c_last_tag_data, v.tag_data)
            IN  /\ c_got' = TRUE
                /\ c_value' = v
                /\ result' = MbRetrieved(result)
                /\ c_rel_corners' = TRUE
                /\ c_notified' = changed
                /\ c_last_tag_data' = IF changed THEN v.tag_data ELSE c_last_tag_data
                /\ last_notified' = IF changed THEN v.tag_data ELSE last_notified
                /\ prev_notified' = IF changed THEN last_notified ELSE prev_notified
                /\ notify_count' = IF changed /\ notify_count < 2
                                   THEN notify_count + 1 ELSE notify_count
                /\ c_has_window' = v.viz
       ELSE /\ c_got' = FALSE
            /\ c_notified' = FALSE
            /\ UNCHANGED <<c_value, result, c_rel_corners, c_last_tag_data, last_notified,
                           prev_notified, notify_count, c_has_window>>
    /\ c_published' = published
    /\ c_pc' = "ui"
    /\ UNCHANGED <<key_box, compute_visualization, published, skipped, keys_sent>>
    /\ UNCHANGED <<prodVars, tagVars, encVars, camVars, rateVars, otherVars>>

\* lines 309-334: ENTER on stdin toggles the UI, the auto-hide timeout hides it
ConsumerUi ==
    /\ c_pc = "ui"
    /\ \E newline \in BOOLEAN, timeout_is_up \in BOOLEAN :
          LET toggled == IF newline
                         THEN MbSet(compute_visualization,
                                    IF MbReady(compute_visualization)
                                    THEN ~compute_visualization.value ELSE FALSE)
                         ELSE compute_visualization
          IN  compute_visualization' = IF timeout_is_up THEN MbSet(toggled, FALSE)
                                       ELSE toggled
    /\ c_pc' = "key"
    /\ UNCHANGED <<c_got, c_value, c_published, c_last_tag_data, c_has_window,
                   c_rel_corners, c_notified>>
    /\ UNCHANGED <<result, key_box>>
    /\ UNCHANGED <<prodVars, seenVars, tagVars, encVars, camVars, rateVars, otherVars>>

\* lines 336-356: with a window, a key is waited for and handed to the worker;
\* ESC, and ENTER once a result was seen, leave scan()
ConsumerKey ==
    /\ c_pc = "key"
    /\ \/ /\ ~c_has_window
          /\ c_pc' = "retrieve"
          /\ UNCHANGED <<key_box, keys_sent>>
       \/ /\ c_has_window
          /\ c_pc' = "retrieve"
          /\ UNCHANGED <<key_box, keys_sent>>
       \/ /\ c_has_window
          /\ \E key \in KeyCodes :
                IF key = 27 \/ (key = 13 /\ c_rel_corners)
                THEN /\ c_pc' = "exited"
                     /\ UNCHANGED <<key_box, keys_sent>>
                ELSE /\ keys_sent < MaxKeys
                     /\ key_box' = MbSet(key_box, [n |-> keys_sent + 1, code |-> key])
                     /\ keys_sent' = keys_sent + 1
                     /\ c_pc' = "retrieve"
    /\ UNCHANGED <<c_got, c_value, c_published, c_last_tag_data, c_has_window,
                   c_rel_corners, c_notified>>
    /\ UNCHANGED <<result, compute_visualization>>
    /\ UNCHANGED <<published, skipped, last_notified, prev_notified, notify_count>>
    /\ UNCHANGED <<prodVars, tagVars, encVars, camVars, rateVars, otherVars>>

ConsumerNext == ConsumerWait \/ ConsumerRetrieve \/ ConsumerUi \/ ConsumerKey

Init ==
    /\ TagIdle
    /\ EncIdle
    /\ ScanStart
    /\ CamIdle
    /\ RateIdle
    /\ OtherIdle

Next == ProducerNext \/ ConsumerNext

Spec == Init /\ [][Next]_vars

(***************************************************************************)
(* The rate limiter of a WorkerThread (section 4.5): the loop measures the *)
(* time its cycle took and sleeps what is left of the period               *)
(***************************************************************************)
RateCap == MaxCompute + 1
RateSat(t) == IF t < RateCap THEN t + 1 ELSE RateCap

\* a slip: the sleep comes out one tick short
LimiterSleepShort(T, elapsed) == IF elapsed < T THEN T - elapsed - 1 ELSE 0

\* the remainder of the period, none once the cycle has used it up
LimiterSleep(T, elapsed) == IF elapsed < T THEN T - elapsed ELSE 0

\* producer.rate_limit = 4; producer.start(): the first cycle begins
RateInit ==
    /\ TagIdle
    /\ EncIdle
    /\ ScanStart
    /\ CamIdle
    /\ OtherIdle
    /\ rl_pc = "cycle"
    /\ rl_elapsed = 0
    /\ rl_sleep_left = 0
    /\ rl_started = 1
    /\ rl_finished = 0
    /\ rl_last_compute = 0
    /\ rl_last_slept = 0
    /\ rl_last_period = 0
    /\ rl_overrun_seen = FALSE

\* time passes; a cycle takes MaxCompute at most
RateTick ==
    /\ rl_pc = "cycle" => rl_elapsed < MaxCompute
    /\ rl_elapsed' = RateSat(rl_elapsed)
    /\ rl_sleep_left' = IF rl_sleep_left > 0 THEN rl_sleep_left - 1 ELSE 0
    /\ UNCHANGED <<rl_pc, rl_started, rl_finished, rl_last_compute, rl_last_slept,
                   rl_last_period, rl_overrun_seen>>
    /\ UNCHANGED <<tagVars, encVars, scanVars, camVars, otherVars>>

\* the cycle returns; the limiter measures it and starts its sleep
RateCycleEnd ==
    /\ rl_pc = "cycle"
    /\ rl_finished' = rl_finished + 1
    /\ rl_last_compute' = rl_elapsed
    /\ rl_last_slept' = LimiterSleep(RatePeriod, rl_elapsed)
    /\ rl_sleep_left' = LimiterSleep(RatePeriod, rl_elapsed)
    /\ rl_overrun_seen' = (rl_overrun_seen \/ rl_elapsed > RatePeriod)
    /\ rl_pc' = "sleep"
    /\ UNCHANGED <<rl_elapsed, rl_started, rl_last_period>>
    /\ UNCHANGED <<tagVars, encVars, scanVars, camVars, otherVars>>

\* the sleep is over (at once when there was none): the next cycle begins
RateNextCycle ==
    /\ rl_pc = "sleep"
    /\ rl_sleep_left = 0
    /\ rl_started < MaxIterations
    /\ rl_last_period' = rl_elapsed
    /\ rl_elapsed' = 0
    /\ rl_started' = rl_started + 1
    /\ rl_pc' = "cycle"
    /\ UNCHANGED <<rl_sleep_left, rl_finished, rl_last_compute, rl_last_slept,
                   rl_overrun_seen>>
    /\ UNCHANGED <<tagVars, encVars, scanVars, camVars, otherVars>>

RateNext == RateTick \/ RateCycleEnd \/ RateNextCycle

SpecRate == RateInit /\ [][RateNext]_vars

(***************************************************************************)
(* RetrieveImage: the constructor, the worker thread, read() and __del     *)
(***************************************************************************)
Constructed == a_caller = "worker"
ReconnectPcs == {"rc_ts", "rc_sleep"}
Sat(t) == IF t < TimeCap THEN t + 1 ELSE TimeCap

\* lines 58-68 with smooth = 0.0, the constructor's default: the frame replaces
\* the stored one
StoreImage(last, image) == image

\* __read_and_block_when_disconnected: while not ret
CtorRetries(ret) == ~ret

\* a slip: the frame of a failed read is stored like any other
ImageAfterReadUnguarded(last, ret, image) == StoreImage(last, image)

\* __read, lines 57-69: if ret, the frame goes into the stored image; the
\* stored image is what __read returns
ImageAfterRead(last, ret, image) == IF ret THEN StoreImage(last, image) ELSE last

\* what has happened since the last failed capture.read(), after one more read
ReadSinceFailure(before, ret) ==
    IF ~ret THEN "nothing"
    ELSE IF before = "published" THEN "published" ELSE "read"

\* time passes
Tick ==
    /\ since_ts' = Sat(since_ts)
    /\ since_open' = Sat(since_open)
    /\ sleep_left' = IF sleep_left > 0 THEN sleep_left - 1 ELSE 0
    /\ UNCHANGED <<camera_up, capture_open, rlock, a_pc, a_caller, last_image, frame_box,
                   stop_flag, r_pc, r_frame, r_latest, r_returns, d_pc, ever_read_ok,
                   last_published, open_gap, open_attempts>>
    /\ UNCHANGED cycleVars
    /\ UNCHANGED <<tagVars, encVars, scanVars, rateVars, otherVars>>

\* the device goes away or comes back
CameraChange ==
    /\ camera_up' = ~camera_up
    /\ UNCHANGED <<capture_open, rlock, a_pc, a_caller, since_ts, sleep_left, last_image,
                   frame_box, stop_flag, r_pc, r_frame, r_latest, r_returns, d_pc,
                   ever_read_ok, last_published, since_open, open_gap, open_attempts>>
    /\ UNCHANGED cycleVars
    /\ UNCHANGED <<tagVars, encVars, scanVars, rateVars, otherVars>>

\* __read_and_block_when_disconnected, lines 44-48 (and 29-31 on success): one
\* capture.read(); on success the image is stored and the worker thread started
CtorRead ==
    /\ a_pc = "c_read"
    /\ LET ret == capture_open /\ camera_up
       IN  IF CtorRetries(ret)
           THEN /\ a_pc' = "rc_ts"
                /\ UNCHANGED <<last_image, rlock, a_caller, ever_read_ok>>
           ELSE /\ \E image \in Frames : last_image' = IF ret THEN image ELSE NoFrame
                /\ ever_read_ok' = ret
                /\ rlock' = "none"
                /\ a_caller' = "worker"
                /\ a_pc' = "w_top"
    /\ UNCHANGED <<camera_up, capture_open, since_ts, sleep_left, frame_box, stop_flag,
                   r_pc, r_frame, r_latest, r_returns, d_pc, last_published, since_open,
                   open_gap, open_attempts>>
    /\ since_failure' = IF CtorRetries(capture_open /\ camera_up) THEN "nothing" ELSE "read"
    /\ UNCHANGED <<cycle_image, cycle_fails>>
    /\ UNCHANGED <<tagVars, encVars, scanVars, rateVars, otherVars>>

\* a slip: the loop of reconnect goes round whatever open returned
AfterOpenLoops == "rc_ts"

\* reconnect, lines 83-87: release and open; on success the loop ends and the
\* caller goes on to its next capture.read(), else the loop goes round again
AfterOpen == IF camera_up
             THEN (IF a_caller = "ctor" THEN "c_read" ELSE "w_read2")
             ELSE "rc_ts"

\* reconnect, lines 75-80, and 83-87 when there is nothing to wait for: the
\* timestamp is taken and stored and the delay computed from the previous one
ReconnectTimestamp ==
    /\ a_pc = "rc_ts"
    /\ LET reconnection_delay == ReconnectionDelay - since_ts
       IN  IF reconnection_delay > 0
           THEN /\ sleep_left' = reconnection_delay
                /\ a_pc' = "rc_sleep"
                /\ UNCHANGED <<capture_open, open_gap, since_open, open_attempts>>
           ELSE /\ sleep_left' = 0
                /\ capture_open' = camera_up
                /\ a_pc' = AfterOpen
                /\ open_gap' = since_open
                /\ since_open' = 0
                /\ open_attempts' = IF open_attempts < 2 THEN open_attempts + 1 ELSE 2
    /\ since_ts' = 0
    /\ UNCHANGED <<camera_up, rlock, a_caller, last_image, frame_box, stop_flag, r_pc,
                   r_frame, r_latest, r_returns, d_pc, ever_read_ok, last_published>>
    /\ UNCHANGED cycleVars
    /\ UNCHANGED <<tagVars, encVars, scanVars, rateVars, otherVars>>

\* reconnect, line 81 and 83-87: time.sleep(reconnection_delay) returns, then
\* release and open
ReconnectSleep ==
    /\ a_pc = "rc_sleep"
    /\ sleep_left = 0
    /\ capture_open' = camera_up
    /\ a_pc' = AfterOpen
    /\ open_gap' = since_open
    /\ since_open' = 0
    /\ open_attempts' = IF open_attempts < 2 THEN open_attempts + 1 ELSE 2
    /\ UNCHANGED <<camera_up, rlock, a_caller, since_ts, sleep_left, last_image, frame_box,
                   stop_flag, r_pc, r_frame, r_latest, r_returns, d_pc, ever_read_ok,
                   last_published>>
    /\ UNCHANGED cycleVars
    /\ UNCHANGED <<tagVars, encVars, scanVars, rateVars, otherVars>>

\* WorkerThread: the loop runs until the thread is told to stop
WorkerTop ==
    /\ a_pc = "w_top"
    /\ a_pc' = IF stop_flag THEN "terminated" ELSE "w_lock"
    /\ UNCHANGED <<camera_up, capture_open, rlock, a_caller, since_ts, sleep_left,
                   last_image, frame_box, stop_flag, r_pc, r_frame, r_latest, r_returns,
                   d_pc, ever_read_ok, last_published, since_open, open_gap, open_attempts>>
    /\ UNCHANGED cycleVars
    /\ UNCHANGED <<tagVars, encVars, scanVars, rateVars, otherVars>>

\* __read, line 51: with self.rlock
WorkerLock ==
    /\ a_pc = "w_lock"
    /\ rlock = "none"
    /\ rlock' = "worker"
    /\ a_pc' = "w_read"
    /\ UNCHANGED <<camera_up, capture_open, a_caller, since_ts, sleep_left, last_image,
                   frame_box, stop_flag, r_pc, r_frame, r_latest, r_returns, d_pc,
                   ever_read_ok, last_published, since_open, open_gap, open_attempts>>
    /\ cycle_image' = last_image
    /\ cycle_fails' = 0
    /\ UNCHANGED since_failure
    /\ UNCHANGED <<tagVars, encVars, scanVars, rateVars, otherVars>>

\* __read, lines 52-54, and 57-69 when the read succeeded
WorkerRead ==
    /\ a_pc = "w_read"
    /\ IF capture_open /\ camera_up
       THEN /\ \E image \in Frames : last_image' = StoreImage(last_image, image)
            /\ ever_read_ok' = TRUE
            /\ rlock' = "none"
            /\ a_pc' = "w_publish"
       ELSE /\ a_pc' = "rc_ts"
            /\ UNCHANGED <<last_image, ever_read_ok, rlock>>
    /\ UNCHANGED <<camera_up, capture_open, a_caller, since_ts, sleep_left, frame_box,
                   stop_flag, r_pc, r_frame, r_latest, r_returns, d_pc, last_published,
                   since_open, open_gap, open_attempts>>
    /\ since_failure' = ReadSinceFailure(since_failure, capture_open /\ camera_up)
    /\ cycle_fails' = IF capture_open /\ camera_up THEN cycle_fails ELSE 1
    /\ UNCHANGED cycle_image
    /\ UNCHANGED <<tagVars, encVars, scanVars, rateVars, otherVars>>

\* __read, lines 55-69: the read after reconnect; the stored image is returned
\* whether or not it succeeded
WorkerReadAgain ==
    /\ a_pc = "w_read2"
    /\ LET ret == capture_open /\ camera_up
       IN  /\ \E image \in (IF ret THEN Frames ELSE {NoFrame}) :
                 last_image' = ImageAfterRead(last_image, ret, image)
           /\ ever_read_ok' = (ever_read_ok \/ ret)
           /\ since_failure' = ReadSinceFailure(since_failure, ret)
           /\ cycle_fails' = IF ret THEN cycle_fails ELSE 2
    /\ rlock' = "none"
    /\ a_pc' = "w_publish"
    /\ UNCHANGED cycle_image
    /\ UNCHANGED <<camera_up, capture_open, a_caller, since_ts, sleep_left, frame_box,
                   stop_flag, r_pc, r_frame, r_latest, r_returns, d_pc, last_published,
                   since_open, open_gap, open_attempts>>
    /\ UNCHANGED <<tagVars, encVars, scanVars, rateVars, otherVars>>

\* WorkerThread: the value __read returned is put into the mailbox
WorkerPublish ==
    /\ a_pc = "w_publish"
    /\ ~MbSetBlocks(frame_box)
    /\ frame_box' = MbSet(frame_box, last_image)
    /\ last_published' = last_image
    /\ a_pc' = "w_sleep"
    /\ UNCHANGED <<camera_up, capture_open, rlock, a_caller, since_ts, sleep_left,
                   last_image, stop_flag, r_pc, r_frame, r_latest, r_returns, d_pc,
                   ever_read_ok, since_open, open_gap, open_attempts>>
    /\ since_failure' = IF since_failure = "read" THEN "published" ELSE since_failure
    /\ UNCHANGED <<cycle_image, cycle_fails>>
    /\ UNCHANGED <<tagVars, encVars, scanVars, rateVars, otherVars>>

\* WorkerThread: the rate limiter's sleep ends, or is cut short by stop
WorkerSleep ==
    /\ a_pc = "w_sleep"
    /\ a_pc' = "w_top"
    /\ UNCHANGED <<camera_up, capture_open, rlock, a_caller, since_ts, sleep_left,
                   last_image, frame_box, stop_flag, r_pc, r_frame, r_latest, r_returns,
                   d_pc, ever_read_ok, last_published, since_open, open_gap, open_attempts>>
    /\ UNCHANGED cycleVars
    /\ UNCHANGED <<tagVars, encVars, scanVars, rateVars, otherVars>>

AcquireNext ==
    \/ CtorRead \/ ReconnectTimestamp \/ ReconnectSleep
    \/ WorkerTop \/ WorkerLock \/ WorkerRead \/ WorkerReadAgain \/ WorkerPublish
    \/ WorkerSleep

\* read(), lines 38-39: the frame rate is asked for and the rate limit set; no
\* lock is taken
ReadCall ==
    /\ Constructed
    /\ r_pc = "idle"
    /\ r_pc' = "retrieve"
    /\ UNCHANGED <<camera_up, capture_open, rlock, a_pc, a_caller, since_ts, sleep_left,
                   last_image, frame_box, stop_flag, r_frame, r_latest, r_returns, d_pc,
                   ever_read_ok, last_published, since_open, open_gap, open_attempts>>
    /\ UNCHANGED cycleVars
    /\ UNCHANGED <<tagVars, encVars, scanVars, rateVars, otherVars>>

\* read(), line 40: self.__worker.result.retrieve() returns
ReadReturn ==
    /\ r_pc = "retrieve"
    /\ MbReady(frame_box)
    /\ r_frame' = frame_box.value
    /\ r_latest' = last_published
    /\ frame_box' = MbRetrieved(frame_box)
    /\ r_returns' = IF r_returns < 2 THEN r_returns + 1 ELSE 2
    /\ r_pc' = "idle"
    /\ UNCHANGED <<camera_up, capture_open, rlock, a_pc, a_caller, since_ts, sleep_left,
                   last_image, stop_flag, d_pc, ever_read_ok, last_published, since_open,
                   open_gap, open_attempts>>
    /\ UNCHANGED cycleVars
    /\ UNCHANGED <<tagVars, encVars, scanVars, rateVars, otherVars>>

\* __del is called: line 97, with self.rlock, waits for the lock
DelCall ==
    /\ Constructed
    /\ d_pc = "idle"
    /\ d_pc' = "lock"
    /\ UNCHANGED <<camera_up, capture_open, rlock, a_pc, a_caller, since_ts, sleep_left,
                   last_image, frame_box, stop_flag, r_pc, r_frame, r_latest, r_returns,
                   ever_read_ok, last_published, since_open, open_gap, open_attempts>>
    /\ UNCHANGED cycleVars
    /\ UNCHANGED <<tagVars, encVars, scanVars, rateVars, otherVars>>

\* __del, lines 97-99: under the lock the worker is told to stop and the capture
\* released
DelRun ==
    /\ d_pc = "lock"
    /\ rlock = "none"
    /\ stop_flag' = TRUE
    /\ capture_open' = FALSE
    /\ d_pc' = "done"
    /\ UNCHANGED <<camera_up, rlock, a_pc, a_caller, since_ts, sleep_left, last_image,
                   frame_box, r_pc, r_frame, r_latest, r_returns, ever_read_ok,
                   last_published, since_open, open_gap, open_attempts>>
    /\ UNCHANGED cycleVars
    /\ UNCHANGED <<tagVars, encVars, scanVars, rateVars, otherVars>>

CamInit ==
    /\ TagIdle
    /\ EncIdle
    /\ ScanStart
    /\ CamStart
    /\ RateIdle
    /\ OtherIdle

CamNext ==
    \/ AcquireNext
    \/ Tick \/ CameraChange
    \/ ReadCall \/ ReadReturn
    \/ DelCall \/ DelRun

SpecCam == CamInit /\ [][CamNext]_vars

\* every thread that can take a step eventually takes one, and time passes
FairSpecCam ==
    /\ SpecCam
    /\ WF_vars(AcquireNext)
    /\ WF_vars(Tick)
    /\ WF_vars(ReadReturn)
    /\ WF_vars(DelRun)

\* the life of a RetrieveImage on which __del is not called (nothing in the
\* repository calls it)
RunNext ==
    \/ AcquireNext
    \/ Tick \/ CameraChange
    \/ ReadCall \/ ReadReturn

SpecRun == CamInit /\ [][RunNext]_vars

FairSpecRun ==
    /\ SpecRun
    /\ WF_vars(AcquireNext)
    /\ WF_vars(Tick)
    /\ WF_vars(ReadReturn)

(***************************************************************************)
(* Claims about the tag catalog and the encoding                           *)
(***************************************************************************)
TagArray(i) == string_tag_to_np_tag(tags[i], tag_size)

\* the encodings create_tag_dict registers for the tag at position i, in order
TagEncodingSeq(i) ==
    LET r == Rotations(TagArray(i))
    IN  [k \in 1..4 |-> np_tag_to_int(r[k], tag_size)]

TagEncodings(i) == {TagEncodingSeq(i)[k] : k \in 1..4}

\* C9 as stated: the catalog maps the encoding of every tag and of each of its
\* rotations to the tag's own index, and detect_tags returns that index for a
\* tile equal to the rotation.
C9_RotationsMapToOwnIndex ==
    \A i \in 1..Len(tags) : \A k \in 1..4 :
        LET r == Rotations(TagArray(i))[k]
        IN  /\ DictGet(tag_dict, np_tag_to_int(r, tag_size), -1) = i - 1
            /\ \A c \in 1..Len(tiles) : tiles[c] = r => detected_tags[c] = i - 1

\* for each position of the list, the four rotations of its tag and their encodings
RECURSIVE RegisteredRotations(_)
RegisteredRotations(n) ==
    IF n = 0 THEN <<>>
    ELSE LET r == Rotations(TagArray(n))
         IN  Append(RegisteredRotations(n - 1),
                    [rot |-> r,
                     enc |-> <<np_tag_to_int(r[1], tag_size), np_tag_to_int(r[2], tag_size),
                               np_tag_to_int(r[3], tag_size), np_tag_to_int(r[4], tag_size)>>])

\* C9 amended: the catalog maps the encoding of every tag and of each of its
\* rotations to the index of the last tag of the list that registers this
\* encoding, which is the tag's own index when no later tag registers it; and
\* detect_tags returns that index for a tile equal to the rotation.
C9_RotationsMapToLastIndex ==
    LET reg == RegisteredRotations(Len(tags))
        Registers(j, e) == \E k \in 1..4 : reg[j].enc[k] = e
        \* the last position of the list whose tag registers encoding e
        LastPositionWith(e) ==
            CHOOSE j \in 1..Len(tags) :
                /\ Registers(j, e)
                /\ \A l \in (j + 1)..Len(tags) : ~Registers(l, e)
    IN  \A i \in 1..Len(tags) : \A k \in 1..4 :
            LET e == reg[i].enc[k]
                last == LastPositionWith(e) - 1
            IN  /\ DictGet(tag_dict, e, -1) = last
                /\ (\A j \in (i + 1)..Len(tags) : ~Registers(j, e)) => last = i - 1
                /\ \A c \in 1..Len(tiles) :
                      tiles[c] = reg[i].rot[k] => detected_tags[c] = last

\* two tags with no common encoding; the tile is the first tag turned by 90
\* degrees (and differs from it), and is detected as index 0
C9_Witness ==
    /\ Len(tags) = 2
    /\ TagEncodings(1) \cap TagEncodings(2) = {}
    /\ Len(tiles) = 1
    /\ tiles[1] = rot90(TagArray(1))
    /\ tiles[1] # TagArray(1)
    /\ detected_tags = <<0>>

\* row-major, first cell most significant: the cell at linear position p of n
\* cells weighs 2^(n-p)
RECURSIVE MsbFirstValue(_, _)
MsbFirstValue(data, p) ==
    IF p > Len(data) THEN 0
    ELSE data[p] * Pow2(Len(data) - p) + MsbFirstValue(data, p + 1)

\* C10: np_tag_to_int of a tile of the configured size is its row-major,
\* most-significant-bit-first value, lies in 0 .. 2^(tw*th) - 1, differs for
\* different tiles and reaches every integer of that range; and for a bit string
\* s, np_tag_to_int(string_tag_to_np_tag(s)) = string_tag_to_int(s).
C10_EncodingBijective ==
    LET n == tag_size[1] * tag_size[2]
    IN  /\ int_a # -1 =>
              /\ int_a \in 0..(Pow2(n) - 1)
              /\ int_a = MsbFirstValue(np_a.data, 1)
              /\ int_b = MsbFirstValue(np_b.data, 1)
              /\ (int_a = int_b => np_a = np_b)
              /\ \E t \in AllTiles(tag_size) :
                    np_tag_to_int(t, tag_size) = (Pow2(n) - 1) - int_a
        /\ string_tag # <<>> => int_of_np = int_of_string

\* both functions have been applied: a string read as 6 both ways, and two
\* different tiles of which the first has only its last cell set
C10_Witness ==
    /\ int_of_string = 6
    /\ int_of_np = 6
    /\ int_a = 1
    /\ np_a # np_b
    /\ np_a.data[Len(np_a.data)] = 1

(***************************************************************************)
(* Claims about scan() and the mailbox                                     *)
(***************************************************************************)
\* C1: in the consumer loop, a retrieved grid is passed to notify if and only
\* if it differs elementwise from the grid of the last notify call (or there was
\* none); two consecutive notify calls never carry equal grids; an iteration
\* that retrieves nothing notifies nothing.
C1_ForwardIffChanged ==
    /\ (c_pc = "ui" /\ c_got) =>
          LET forwarded_before == IF c_notified THEN prev_notified ELSE last_notified
          IN  /\ c_notified <=> ~array_equal(forwarded_before, c_value.tag_data)
              /\ c_notified => last_notified = c_value.tag_data
    /\ (c_pc = "ui" /\ ~c_got) => ~c_notified
    /\ notify_count >= 2 => ~array_equal(prev_notified, last_notified)

\* a second notification has just been made, for a grid that is not the one the
\* worker computed last
C1_Witness ==
    /\ c_pc = "ui"
    /\ c_got
    /\ c_notified
    /\ notify_count >= 2
    /\ ~array_equal(w_last_tag_data, c_value.tag_data)

\* C2: a read of the mailbox returns the value of the latest set; a value that
\* was overwritten before any read is never returned. Stated for producer.result
\* (read by the consumer) and for roi_worker.key (read by the worker).
C2_ReadReturnsLatestSet ==
    /\ c_got => /\ c_value.cycle = c_published
                /\ c_value.cycle \notin skipped
    /\ w_key # NoKey => w_key.n = w_key_sent

\* results 1 and 2 were set with no read in between, and the consumer's read
\* returned result 2
C2_Witness ==
    /\ c_pc = "ui"
    /\ c_got
    /\ 1 \in skipped
    /\ c_value.cycle = 2

\* C8: after a cycle the mailbox holds the cycle's result, whatever was in it
\* before; a worker about to publish is not made to wait; and while cycles
\* remain the producer always has a step it can take, whatever the consumer does.
C8_PublishNeverWaits ==
    /\ p_pc = "sleep" =>
          /\ result.has
          /\ result.value = WorkResult(cycle, w_tag_data, w_result.viz)
    /\ p_pc = "publish" => ENABLED Publish
    /\ cycle <= MaxCycles => ENABLED ProducerNext

\* the consumer has not read anything, and the second result has replaced the
\* unread first one
C8_Witness ==
    /\ c_pc = "wait"
    /\ p_pc = "sleep"
    /\ 1 \in skipped
    /\ result.unread
    /\ result.value.cycle = 2

(***************************************************************************)
(* Claims about RetrieveImage                                              *)
(***************************************************************************)
\* C3: no reachable state has a thread inside read() that cannot return while
\* the acquisition worker is in reconnect's loop.
C3_ReadNeverWaitsForReconnect ==
    ~(r_pc = "retrieve" /\ ~MbReady(frame_box) /\ a_pc \in ReconnectPcs)

\* C4: a RetrieveImage exists, and so read() can be called and return, only
\* after a capture.read() has succeeded; read() returns the frame published
\* last; and once a read() has returned, a later read() is never made to wait.
C4_ReadContract ==
    /\ Constructed => ever_read_ok
    /\ r_returns >= 1 => /\ ever_read_ok
                         /\ r_frame \in Frames
                         /\ r_frame = r_latest
    /\ (r_pc = "retrieve" /\ r_returns >= 1) => ENABLED ReadReturn

\* a second read() is in progress while the worker is reconnecting and has
\* published nothing since the first read() returned
C4_Witness ==
    /\ r_pc = "retrieve"
    /\ r_returns = 1
    /\ ~frame_box.unread
    /\ a_pc \in ReconnectPcs

\* C5: any two consecutive capture.open calls are at least reconnection_delay
\* apart.
C5_OpenAttemptsSpaced ==
    open_attempts >= 2 => open_gap >= ReconnectionDelay

\* C6: once __del has been called to stop the worker, the worker thread
\* eventually terminates.
C6_StopLeadsToTermination ==
    (d_pc # "idle") ~> (a_pc = "terminated")

(***************************************************************************)
(* Claims about the rate limiter                                           *)
(***************************************************************************)
\* C7: cycles of one worker never overlap and each iteration runs exactly one
\* (a cycle starts only after the one before it has finished); when the cycle
\* finished last took less than the period, the iteration it was in lasted at
\* least the period from start to start; when it took the period or more, the
\* limiter asked for no sleep at all.
C7_RateLimited ==
    /\ rl_started - rl_finished = (IF rl_pc = "cycle" THEN 1 ELSE 0)
    /\ (rl_pc = "cycle" /\ rl_started >= 2 /\ rl_last_compute < RatePeriod)
          => rl_last_period >= RatePeriod
    /\ (rl_finished >= 1 /\ rl_last_compute >= RatePeriod) => rl_last_slept = 0
    /\ (rl_pc = "cycle" /\ rl_started >= 2 /\ rl_last_slept = 0)
          => rl_last_period >= rl_last_compute

\* a short cycle was stretched to exactly the period, after an earlier cycle
\* had overrun it
C7_Witness ==
    /\ rl_pc = "cycle"
    /\ rl_overrun_seen
    /\ rl_last_compute > 0
    /\ rl_last_compute < RatePeriod
    /\ rl_last_period = RatePeriod
    /\ rl_started = rl_finished + 1

(***************************************************************************)
(* Claims about tile_window and extract_tiles                              *)
(***************************************************************************)
\* C11: the windows tile_window computes for distinct cells share no pixel,
\* and along each axis they reach from the first pixel to within one pixel of
\* the last, so that windows and the gaps between them cover the image.
C11_WindowsDisjointAndCover ==
    x_pc = "windows" =>
        /\ \A a, b \in Cells(grid_size) :
              a # b => WindowPixels(img_shape, windows[a])
                          \cap WindowPixels(img_shape, windows[b]) = {}
        /\ \A c \in Cells(grid_size) :
              /\ c[1] = 0 => windows[c].y_start = 0
              /\ c[2] = 0 => windows[c].x_start = 0
              /\ c[1] = grid_size[1] - 1 => windows[c].y_end >= img_shape[1] - 1
              /\ c[2] = grid_size[2] - 1 => windows[c].x_end >= img_shape[2] - 1

\* C12: when the window of some cell is degenerate, extract_tiles and
\* detect_tags still complete, and that cell is reported as -1.
C12_DegenerateCellUnmatched ==
    LET ws == [c \in Cells(grid_size) |->
                 tile_window(img_shape, grid_size, rel_gaps, c[2], c[1])]
        degenerate == {c \in Cells(grid_size) :
                         ws[c].y_end <= ws[c].y_start \/ ws[c].x_end <= ws[c].x_start}
    IN  (x_pc \notin {"idle", "windows"} /\ degenerate # {}) =>
            /\ x_pc \in {"extracted", "detected"}
            /\ x_pc = "detected" => \A c \in degenerate : detected_tags[c] = -1

(***************************************************************************)
(* Claims about the smoothing                                              *)
(***************************************************************************)
\* C13: after a successful read with previous frame P and incoming frame F,
\* the stored frame is a*P + (1-a)*F, each pixel rounded to the nearest
\* integer, when P and F are compatible and 0 < a < 1, and it is exactly F
\* when they are incompatible or a = 0.
C13_SmoothingBlendsOrReplaces ==
    sm_reads >= 1 =>
        IF compatible(sm_prev, sm_image) /\ sm_smooth > 0 /\ sm_smooth < SmoothDen
        THEN /\ sm_last.shape = sm_prev.shape
             /\ sm_last.dtype = sm_prev.dtype
             /\ \A i \in 1..2 :
                  LET exact == sm_smooth * sm_prev.px[i]
                                 + (SmoothDen - sm_smooth) * sm_image.px[i]
                      diff == SmoothDen * sm_last.px[i] - exact
                  IN  2 * diff <= SmoothDen /\ -2 * diff <= SmoothDen
        ELSE sm_last = sm_image

\* the second read blends two compatible frames into one that differs from
\* both
C13_Witness ==
    /\ sm_reads = 2
    /\ compatible(sm_prev, sm_image)
    /\ sm_smooth = 1
    /\ sm_prev.px = <<3, 0>>
    /\ sm_image.px = <<0, 3>>
    /\ sm_last.px = <<1, 2>>

(***************************************************************************)
(* Claims about retrieve_nowait in scan                                    *)
(***************************************************************************)
\* C14: retrieve_nowait on a mailbox that was never set does not block and
\* gives the outcome Empty, not a value; work() and scan() then go on with
\* their iteration: the worker with no key, the consumer with no result.
C14_EmptyOutcomeHandled ==
    /\ (p_pc \in {"decode", "viz", "publish", "sleep"} /\ w_key_sent = 0) => w_key = NoKey
    /\ (p_pc = "keys" /\ cycle <= MaxCycles) => ENABLED WorkKeys
    /\ (c_pc \in {"ui", "key"} /\ c_published = 0) => ~c_got
    /\ c_pc = "retrieve" => ENABLED ConsumerRetrieve

\* the worker is in its second cycle and has again found no key, none having
\* ever been set
C14_Witness ==
    /\ p_pc = "decode"
    /\ cycle = 2
    /\ published = 1
    /\ keys_sent = 0
    /\ w_key_sent = 0
    /\ w_key = NoKey

(***************************************************************************)
(* Claims about the start of scan()                                        *)
(***************************************************************************)
\* C15: a configuration with a tag whose length is not the tile's width times
\* height, or with a non-positive grid dimension, never gets as far as a built
\* detector or a running producer; a start that failed has started no worker
\* thread; and a worker thread runs only once the detector has been built.
C15_InvalidConfigRejectedBeforeThreads ==
    LET invalid == \/ \E k \in 1..Len(tags) : Len(tags[k]) # tag_size[1] * tag_size[2]
                   \/ grid_size[1] <= 0
                   \/ grid_size[2] <= 0
    IN  st_pc # "idle" =>
            /\ invalid => st_pc \notin {"built", "running"}
            /\ st_pc = "failed" => st_threads = {}
            /\ st_threads # {} => st_pc \in {"built", "running"}

(***************************************************************************)
(* Claims about the locks                                                  *)
(***************************************************************************)
\* C16: no thread holds two different locks at once; a thread that waits for
\* a lock, or on a mailbox's condition, holds no lock; and a lock some thread
\* waits for is held by a thread that can take its next step, so that no
\* ring of waiting threads forms.
C16_NoCrossLockNoDeadlock ==
    /\ \A t \in Threads : Cardinality(Held(t)) <= 1
    /\ \A t \in Threads : BlockedOnLock(t) => Held(t) = {}
    /\ \A t \in Threads : lk_parked[t] => Held(t) = {}
    /\ \A t \in Threads :
          BlockedOnLock(t) => \A h \in Holder(NextOp(t).lock) : CanStep(h)

\* __del waits for the camera lock while the worker holds it twice, inside
\* reconnect; the main thread holds the condition of the visualization flag
\* twice, and the decode thread waits for it
C16_Witness ==
    /\ BlockedOnLock("del")
    /\ lk_depth["worker"]["rlock"] = 2
    /\ lk_depth["main"]["cv"] = 2
    /\ BlockedOnLock("decode")

C18_CollisionLastWins ==
    LET reg == RegisteredRotations(Len(tags))
        Registers(j, e) == \E k \in 1..4 : reg[j].enc[k] = e
    IN  \A j \in 1..Len(tags) : \A i \in 1..(j - 1) : \A k \in 1..4 :
            LET e == reg[i].enc[k]
            IN  (Registers(j, e) /\ \A l \in (j + 1)..Len(tags) : ~Registers(l, e)) =>
                    /\ e \in DOMAIN tag_dict
                    /\ tag_dict[e] = j - 1
                    /\ \A c \in 1..Len(tiles) :
                           np_tag_to_int(tiles[c], tag_size) = e => detected_tags[c] = j - 1

\* the second tag is the first one turned, not the same string; a tile equal
\* to the first tag is detected as the second
C18_Witness ==
    /\ Len(tags) = 2
    /\ tags[1] # tags[2]
    /\ TagArray(1) \in {Rotations(TagArray(2))[k] : k \in 2..4}
    /\ Len(tiles) = 1
    /\ tiles[1] = TagArray(1)
    /\ detected_tags = <<1>>

(***************************************************************************)
(* Claims about reconnection and the stored frame                          *)
(***************************************************************************)
\* C19: a failed capture.read() is never handed to a caller of read(), which
\* only ever returns frames; and if from some time on the camera stays
\* available, then whenever the acquisition code is in reconnect's loop, the
\* worker eventually publishes a frame that was read after the last failed
\* read.
C19_RetriesUntilFreshFrame ==
    /\ [](r_returns >= 1 => r_frame \in Frames)
    /\ <>[]camera_up => ((a_pc \in ReconnectPcs) ~> (since_failure = "published"))

\* the worker has been through reconnect after a failed read, has read a frame
\* on the reopened capture and published it
C19_Witness ==
    /\ a_caller = "worker"
    /\ open_attempts = 2
    /\ cycle_fails = 1
    /\ since_failure = "published"
    /\ a_pc = "w_sleep"

C21_ReturnedFrameStable ==
    al_held # 0 => al_heap[al_held] = al_seen

C23_VerticesClampedIndexCyclic ==
    roi_cycles >= 1 =>
        /\ roi_idx \in 0..3
        /\ \A i \in 1..4 :
              /\ 0 <= roi_vertices[i][1] /\ roi_vertices[i][1] <= roi_shape[2]
              /\ 0 <= roi_vertices[i][2] /\ roi_vertices[i][2] <= roi_shape[1]
        /\ roi_idx = IF roi_applied = 32 THEN (roi_before.idx + 1) % 4 ELSE roi_before.idx

\* after a SPACE made the second vertex the active one, the last call got 'S'
\* and the big step would have taken that vertex below the image
C23_Witness ==
    /\ roi_cycles >= 2
    /\ roi_applied = 83
    /\ roi_before.idx = 1
    /\ roi_before.vertices[2][2] + VertStepBig > roi_shape[1]
    /\ roi_vertices[2][2] = roi_shape[1]

====
